---- MODULE Spec2Model ----
(***************************************************************************)
(* Mail-ZiLLA: the multi-source orchestration engine.                      *)
(*   - SocialAgent.process_email / _execute_multi_category_search          *)
(*     (src/core/social_agent.py), the category-by-category fan-out.       *)
(*   - AIHierarchyManager (src/core/ai_hierarchy.py): the six phases and   *)
(*     the weighted consensus of the decision phase.                       *)
(*   - SocialAgent._search_messaging_platform_with_proxy and               *)
(*     _search_specialized_platform: the retry loop of one source call,    *)
(*     with the time an attempt takes.                                     *)
(***************************************************************************)
EXTENDS Integers, Sequences, FiniteSets, TLC

\* ------------------------------------------------------------------ bounds
\* platforms modelled per category (the first MaxPlatforms of each list)
MaxPlatforms == 2
\* platforms of one query that are skipped (no strategy / no agent); the
\* skipped platforms of a query are taken from one category
MaxSkipped == 1
\* source calls of one query, or agents of one analysis, that raise; the
\* calls that raise belong to one gather, the agents to one phase
MaxFailures == 1

\* agents registered per role of the hierarchy
MaxAgents == 2
\* decision makers handed to the consensus when it is checked on its own
MaxDeciders == 3
\* weights are multiples of 1 / (2 * WeightHalfSteps)
WeightHalfSteps == 1

\* seconds of one step of the clock
TickSeconds == 25
\* seconds after which an attempt without a timeout is no longer followed
MaxElapsed == 45

\* ----------------------------------------------------------------- helpers
Min(a, b) == IF a < b THEN a ELSE b
Take(s, n) == SubSeq(s, 1, Min(n, Len(s)))
Range(s) == {s[i] : i \in DOMAIN s}
\* the subsequence of s whose elements satisfy membership in S, order kept
RECURSIVE SelectIn(_, _)
SelectIn(s, S) ==
  IF s = <<>> THEN <<>>
  ELSE IF Head(s) \in S THEN <<Head(s)>> \o SelectIn(Tail(s), S)
       ELSE SelectIn(Tail(s), S)

\* ------------------------------------------------- resource_orchestrator.py
ResourceLevels == {"critical", "low", "medium", "high", "excellent"}

create_strategy_for_level(lv) ==
  CASE lv = "excellent" -> [max_concurrent_tasks |-> 8, agent_timeout |-> 30,
                            data_quality |-> "comprehensive"]
    [] lv = "high"      -> [max_concurrent_tasks |-> 6, agent_timeout |-> 25,
                            data_quality |-> "comprehensive"]
    [] lv = "medium"    -> [max_concurrent_tasks |-> 4, agent_timeout |-> 20,
                            data_quality |-> "standard"]
    [] lv = "low"       -> [max_concurrent_tasks |-> 2, agent_timeout |-> 15,
                            data_quality |-> "basic"]
    [] lv = "critical"  -> [max_concurrent_tasks |-> 1, agent_timeout |-> 10,
                            data_quality |-> "basic"]

\* The score is computed in Python floats (IEEE-754 binary64).  A value of the
\* computation is the natural number value * 2^FracBits, written in three
\* limbs <<high, middle, low>> of LimbBits bits each (63 bits: every value of
\* the computation is at most 100).
FracBits == 56
MantissaBits == 53
LimbBits == 21
Limb == 2^LimbBits

Carry(v) ==
  LET middle == v[2] + v[3] \div Limb
  IN  <<v[1] + middle \div Limb, middle % Limb, v[3] % Limb>>

\* the exact sum of two values
AddExact(a, b) == Carry(<<a[1] + b[1], a[2] + b[2], a[3] + b[3]>>)

\* the exact product of a value and a natural number up to 100
MulExact(a, n) == Carry(<<a[1] * n, a[2] * n, a[3] * n>>)

\* a >= b
FloatGe(a, b) ==
  \/ a[1] > b[1]
  \/ a[1] = b[1] /\ a[2] > b[2]
  \/ a[1] = b[1] /\ a[2] = b[2] /\ a[3] >= b[3]

\* the number of bits of a limb
BitLength(h) ==
  CHOOSE k \in 0..LimbBits : h < 2^k /\ (k = 0 \/ h >= 2^(k - 1))

\* the nearest binary64 value, ties to the even mantissa: what every float
\* operation of the interpreter returns for its exact result.  At most 10
\* bits are dropped, all of them in the low limb.
RoundToDouble(v) ==
  LET dropped == 2 * LimbBits + BitLength(v[1]) - MantissaBits IN
  IF dropped <= 0 THEN v
  ELSE LET unit == 2^dropped
           rest == v[3] % unit
           odd  == (v[3] \div unit) % 2 = 1
           up   == 2 * rest > unit \/ (2 * rest = unit /\ odd)
       IN  Carry(<<v[1], v[2], v[3] - rest + (IF up THEN unit ELSE 0)>>)

FloatAdd(a, b) == RoundToDouble(AddExact(a, b))
FloatMul(a, n) == RoundToDouble(MulExact(a, n))

\* the literal 0.3 is the double 0x1.3333333333333p-2,
\* 0x4CCCCCCCCCCCCC * 2^-56
Weight03 == <<4915, 419430, 838860>>
\* the literal 0.1 is the double 0x1.999999999999ap-4,
\* 0x1999999999999A * 2^-56
Weight01 == <<1638, 838860, 1677722>>

\* the integer n as a value: n * 2^FracBits
FloatOfNat(n) == <<n * 2^(FracBits - 2 * LimbBits), 0, 0>>

\* A SystemResources snapshot: memory_usage, cpu_usage and battery_level in
\* whole percents, network_speed in Mbit/s counted in halves (57 is 28.5).
MemoryUsages == {0, 33, 60, 100}
CpuUsages == {0, 33, 60, 97, 100}
NetworkSpeeds == {0, 20, 57, 100, 240}
BatteryLevels == {0, 20, 60, 99, 100}
Snapshots ==
  [memory_usage : MemoryUsages, cpu_usage : CpuUsages,
   network_speed : NetworkSpeeds, battery_level : BatteryLevels]
NoResources == [memory_usage |-> 0 - 1]

Max(a, b) == IF a >= b THEN a ELSE b
memory_score(r) == Max(0, 100 - r.memory_usage)
cpu_score(r) == Max(0, 100 - r.cpu_usage)
\* network_speed * 2, the speed being counted in halves
network_score(r) == Min(100, r.network_speed)
battery_score(r) == r.battery_level

overall_score(r) ==
  FloatAdd(FloatAdd(FloatAdd(FloatMul(Weight03, memory_score(r)),
                             FloatMul(Weight03, cpu_score(r))),
                    FloatMul(Weight03, network_score(r))),
           FloatMul(Weight01, battery_score(r)))

level_of_score_unordered(score) ==
  IF FloatGe(score, FloatOfNat(80)) THEN "high"
  ELSE IF FloatGe(score, FloatOfNat(60)) THEN "excellent"
  ELSE IF FloatGe(score, FloatOfNat(40)) THEN "medium"
  ELSE IF FloatGe(score, FloatOfNat(20)) THEN "low"
  ELSE "critical"

level_of_score(score) ==
  IF FloatGe(score, FloatOfNat(80)) THEN "excellent"
  ELSE IF FloatGe(score, FloatOfNat(60)) THEN "high"
  ELSE IF FloatGe(score, FloatOfNat(40)) THEN "medium"
  ELSE IF FloatGe(score, FloatOfNat(20)) THEN "low"
  ELSE "critical"

resource_level(r) == level_of_score(overall_score(r))

\* ---------------------------------------------------------- social_agent.py
platform_categories ==
  [ PROFESSIONAL |-> <<"linkedin", "xing", "angellist">>,
    SOCIAL_MEDIA |-> <<"facebook", "instagram", "twitter", "tiktok",
                       "pinterest", "reddit">>,
    MESSAGING    |-> <<"telegram", "whatsapp", "signal", "discord", "slack">>,
    CODE         |-> <<"github", "gitlab", "stackoverflow">>,
    EMERGING     |-> <<"bluesky", "threads", "mastodon">>,
    SPECIALIZED  |-> <<"onlyfans", "tumblr", "flickr">> ]

category_priority_enum_order ==
  <<"PROFESSIONAL", "SOCIAL_MEDIA", "MESSAGING", "CODE", "EMERGING",
    "SPECIALIZED">>

category_priority ==
  <<"PROFESSIONAL", "CODE", "SOCIAL_MEDIA", "MESSAGING", "EMERGING",
    "SPECIALIZED">>

Categories == DOMAIN platform_categories
\* the platforms of each category that are modelled
ModelledPlatforms ==
  [c \in Categories |-> Take(platform_categories[c], MaxPlatforms)]
CategoryPlatforms(c) == ModelledPlatforms[c]
Platforms == UNION {Range(ModelledPlatforms[c]) : c \in Categories}
CategoryTable ==
  [p \in Platforms |->
     CHOOSE c \in Categories : p \in Range(ModelledPlatforms[c])]
CategoryOf(p) == CategoryTable[p]

\* what a task of the gather ends with: a list of profiles ("ok"), kept by
\* "isinstance(result, list)", or an exception, handed back as a value by
\* return_exceptions=True and dropped by that test
SearchPlatformOutcomes == {"ok", "exc"}
Absent == "absent"

VARIABLES
  level,              \* AdaptiveResourceOrchestrator.current_strategy.level
  platform_agents,    \* keys of SocialAgent.platform_agents
  search_strategies,  \* keys of the strategies of the running query
  pc,                 \* position of process_email
  cat,                \* index into category_priority
  category_tasks,     \* platforms of the gather in progress, in task order
  task,               \* state of the source call of each platform
  platform_results,   \* platform |-> platform whose call produced the list
  dispatched,         \* platforms for which a source call was started
  search_status,      \* active_searches[search_id]['status']
  search_error,       \* active_searches[search_id]['error']
  deadline_exceeded,  \* the caller's outer deadline has passed
  hpc,                \* position of orchestrate_analysis
  phase,              \* index of the running phase (1..6)
  hidx,               \* index of the agent the phase loop awaits next
  agent_outcome,      \* what each agent's method did: returned or raised
  phase_results,      \* the result dict each phase builds
  agent_decisions,    \* agent_decisions of the decision phase
  agent_metrics,      \* AIHierarchyManager.agent_metrics
  final_decision,     \* the AIDecision of _aggregate_decisions
  search_kind,        \* which platform search runs: messaging or specialized
  phone_capable,      \* platforms whose agent has search_by_phone
  cpc,                \* position of each source call coroutine
  attempt,            \* loop variable "attempt" of each source call
  elapsed,            \* seconds the attempt in flight has been running
  attempt_log,        \* how the attempts of each call ended, in order
  result_of           \* what each call returned

searchVars == <<level, platform_agents, search_strategies, pc, cat,
                category_tasks, task, platform_results, dispatched,
                search_status, search_error, deadline_exceeded>>

hierVars == <<hpc, phase, hidx, agent_outcome, phase_results,
              agent_decisions, agent_metrics, final_decision>>

callVars == <<search_kind, phone_capable, cpc, attempt, elapsed, attempt_log,
              result_of>>

VARIABLES
  active_agents,      \* AgentGenerator.active_agents: agent id |-> agent
  monitor_pc,         \* position of monitor_agent_health
  monitor_idx,        \* index of the agent the loop in progress is at
  agents_to_replace   \* agents_to_replace of the cycle in progress

generatorVars == <<active_agents, monitor_pc, monitor_idx, agents_to_replace>>

VARIABLES
  agent_status,       \* BaseAgent.status
  base_metrics,       \* BaseAgent.metrics (the counters of AgentMetrics)
  rate_limit_reset,   \* BaseAgent.rate_limit_reset, compared with now
  requests_sent,      \* calls of self.session.request by _make_request
  request_returned    \* first component of what _make_request returned last

baseAgentVars ==
  <<agent_status, base_metrics, rate_limit_reset, requests_sent,
    request_returned>>

VARIABLES
  resources,          \* the snapshot returned by assess_system_resources
  network_speed_cache,\* AdaptiveResourceOrchestrator.network_speed_cache
  last_network_test,  \* minutes since the instant stored in last_network_test
  speed_pc,           \* where the call of _get_network_speed stands
  speed_returned,     \* what the last call of _get_network_speed returned
  last_attempt        \* minutes since the last speed test ended, whatever
                      \* its outcome (kept for the statements about probes)

orchestratorVars ==
  <<resources, network_speed_cache, last_network_test, speed_pc,
    speed_returned, last_attempt>>

VARIABLES
  profiles,           \* the profiles collected by LinkedInAgent.search_by_email
  unique_profiles     \* the list it returns, as positions in profiles

linkedinVars == <<profiles, unique_profiles>>

VARIABLES
  profile_data,       \* the dict given to BaseAgent._calculate_confidence_score
  confidence_score    \* what it returned, as <<numerator, denominator>>

scoreVars == <<profile_data, confidence_score>>

VARIABLES
  identity,           \* what analyze_digital_identity is given
  deception_analysis  \* what it returned, or that it raised

detectorVars == <<identity, deception_analysis>>

VARIABLES
  lookup_task,   \* one submission of social_lookup_task and its record
  phone_search   \* the last call of process_phone

taskVars == <<lookup_task, phone_search>>

VARIABLES
  requests,           \* RateLimiter.requests: identifier -> admitted times kept
  now,                \* time.time(), in seconds
  other_identifiers,  \* keys of RateLimiter.requests of users not followed
  admitted,           \* identifier -> times of all requests ever admitted
  response            \* what the last check_rate_limit did

limiterVars == <<requests, now, other_identifiers, admitted, response>>

VARIABLES
  task_results,   \* the task_results table: task id -> row
  api_response    \* what the last call of a task route answered

routeVars == <<task_results, api_response>>

VARIABLES
  worker   \* the worker running social_lookup_task for one stored task

workerVars == <<worker>>

VARIABLES
  active_searches,  \* SocialAgent.active_searches: search_id -> status
  callers,          \* the concurrent calls of process_email / process_phone
  epoch_second      \* int(time.time())

registryVars == <<active_searches, callers, epoch_second>>

VARIABLES
  optimizations       \* the settings initialize_optimized_agents received

optimizerVars == <<optimizations>>

\* the components other than the search, the hierarchy and the source calls
componentVars == <<generatorVars, baseAgentVars, orchestratorVars, linkedinVars,
                 scoreVars, detectorVars, taskVars, limiterVars, routeVars,
                 workerVars, registryVars, optimizerVars>>

vars == <<searchVars, hierVars, callVars, componentVars>>

\* determine_resource_strategy stores the strategy of the computed level
determine_resource_strategy(lv) ==
  /\ pc = "idle"
  /\ hpc = "idle"
  /\ level = "none"
  /\ level' = lv
  /\ UNCHANGED <<platform_agents, search_strategies, pc, cat, category_tasks,
                 task, platform_results, dispatched, search_status,
                 search_error, deadline_exceeded>>
  /\ UNCHANGED <<hierVars, callVars, componentVars>>

\* minutes: the age below which _get_network_speed answers from the cache
CacheMinutes == 5
\* the ages are counted up to MaxMinutes
MaxMinutes == 6
\* "Assume 10 Mbps", in halves
FallbackSpeed == 20
NoSpeed == 0 - 1
NoTest == 0 - 1
SpeedTestOutcomes == {"measured", "raises"}

\* `self.network_speed_cache and self.last_network_test and
\*  datetime.now() - self.last_network_test < timedelta(minutes=5)`:
\* None and 0.0 are both false
cache_is_used ==
  /\ network_speed_cache # NoSpeed
  /\ network_speed_cache # 0
  /\ last_network_test # NoTest
  /\ last_network_test < CacheMinutes

\* assess_system_resources calls _get_network_speed, which returns the cached
\* speed or starts a speed test and waits for it; the assessments precede the
\* determination of the strategy
get_network_speed ==
  /\ pc = "idle"
  /\ hpc = "idle"
  /\ level = "none"
  /\ speed_pc = "idle"
  /\ IF cache_is_used
     THEN /\ speed_returned' = network_speed_cache
          /\ speed_pc' = "returned"
     ELSE /\ speed_pc' = "testing"
          /\ UNCHANGED speed_returned
  /\ UNCHANGED <<resources, network_speed_cache, last_network_test,
                 last_attempt>>
  /\ UNCHANGED <<searchVars, hierVars, callVars, generatorVars,
                 baseAgentVars, linkedinVars, scoreVars, detectorVars,
                 taskVars, limiterVars, routeVars, workerVars, registryVars,
                 optimizerVars>>

\* the speed test ends: a measured speed is cached with the instant of the
\* measure; an exception leaves cache and instant alone and 10 Mbps is returned
speed_test_ends(outcome, speed) ==
  /\ speed_pc = "testing"
  /\ IF outcome = "measured"
     THEN /\ network_speed_cache' = speed
          /\ last_network_test' = 0
          /\ speed_returned' = speed
     ELSE /\ speed_returned' = FallbackSpeed
          /\ UNCHANGED <<network_speed_cache, last_network_test>>
  /\ speed_pc' = "returned"
  /\ last_attempt' = 0
  /\ UNCHANGED resources
  /\ UNCHANGED <<searchVars, hierVars, callVars, generatorVars,
                 baseAgentVars, linkedinVars, scoreVars, detectorVars,
                 taskVars, limiterVars, routeVars, workerVars, registryVars,
                 optimizerVars>>

\* assess_system_resources returns the snapshot r of the machine, its
\* network_speed being what _get_network_speed returned
assess_system_resources(r) ==
  /\ speed_pc = "returned"
  /\ r.network_speed = speed_returned
  /\ resources' = r
  /\ speed_pc' = "idle"
  /\ UNCHANGED <<network_speed_cache, last_network_test, speed_returned,
                 last_attempt>>
  /\ UNCHANGED <<searchVars, hierVars, callVars, generatorVars,
                 baseAgentVars, linkedinVars, scoreVars, detectorVars,
                 taskVars, limiterVars, routeVars, workerVars, registryVars,
                 optimizerVars>>

Older(age) == IF age = NoTest THEN NoTest ELSE Min(age + 1, MaxMinutes)

\* a minute passes while no speed test is running
MinutePasses ==
  /\ speed_pc # "testing"
  /\ last_network_test' = Older(last_network_test)
  /\ last_attempt' = Older(last_attempt)
  /\ <<last_network_test', last_attempt'>>
       # <<last_network_test, last_attempt>>
  /\ UNCHANGED <<resources, network_speed_cache, speed_pc, speed_returned>>
  /\ UNCHANGED <<searchVars, hierVars, callVars, generatorVars,
                 baseAgentVars, linkedinVars, scoreVars, detectorVars,
                 taskVars, limiterVars, routeVars, workerVars, registryVars,
                 optimizerVars>>

\* startup_sequence hands the assessed snapshot to determine_resource_strategy
startup_strategy ==
  /\ resources # NoResources
  /\ speed_pc = "idle"
  /\ determine_resource_strategy(resource_level(resources))

InitOrchestrator ==
  /\ resources = NoResources
  /\ network_speed_cache = NoSpeed
  /\ last_network_test = NoTest
  /\ speed_pc = "idle"
  /\ speed_returned = NoSpeed
  /\ last_attempt = NoTest

InFlight == {p \in Platforms : task[p] = "running"}
Finished == {p \in Platforms : task[p] \in SearchPlatformOutcomes}
Failures == {p \in Platforms : task[p] = "exc"}
Eligible(p) == p \in search_strategies /\ p \in platform_agents

InitSearch ==
  /\ level = "none"
  /\ platform_agents = Platforms
  /\ search_strategies = {}
  /\ pc = "idle"
  /\ cat = 1
  /\ category_tasks = <<>>
  /\ task = [p \in Platforms |-> "idle"]
  /\ platform_results = [p \in Platforms |-> Absent]
  /\ dispatched = {}
  /\ search_status = "NONE"
  /\ search_error = ""
  /\ deadline_exceeded = FALSE

\* process_email, up to the first await
process_email ==
  /\ pc = "idle"
  /\ hpc = "idle"
  /\ pc' = "validate"
  /\ search_status' = "IN_PROGRESS"
  /\ UNCHANGED <<level, platform_agents, search_strategies, cat,
                 category_tasks, task, platform_results, dispatched,
                 search_error, deadline_exceeded>>
  /\ UNCHANGED <<hierVars, callVars, componentVars>>

\* STEP 1 (_validate_inputs) and the first lines of
\* _execute_multi_category_search: the strategies of the query
ValidateInputs ==
  /\ pc = "validate"
  /\ \/ /\ pc' = "raised"
        /\ search_status' = "FAILED"
        /\ search_error' = "ValidationError"
        /\ UNCHANGED search_strategies
     \/ /\ \E c \in Categories : \E M \in SUBSET Range(CategoryPlatforms(c)) :
             /\ Cardinality(M) <= MaxSkipped
             /\ search_strategies' = Platforms \ M
        /\ pc' = "search"
        /\ UNCHANGED <<search_status, search_error>>
  /\ UNCHANGED <<level, platform_agents, cat, category_tasks, task,
                 platform_results, dispatched, deadline_exceeded>>
  /\ UNCHANGED <<hierVars, callVars, componentVars>>

\* the tasks of one category, in the order of the category's platform list
CategoryTasks(c) ==
  SelectIn(CategoryPlatforms(c), {p \in Platforms : Eligible(p)})

\* one iteration of "for category in category_priority" up to the gather
StartCategory ==
  /\ pc = "search"
  /\ cat <= Len(category_priority)
  /\ LET tasks == CategoryTasks(category_priority[cat]) IN
       IF tasks = <<>>
       THEN /\ cat' = cat + 1
            /\ UNCHANGED <<pc, category_tasks, task, dispatched>>
       ELSE /\ category_tasks' = tasks
            /\ task' = [p \in Platforms |->
                          IF p \in Range(tasks) THEN "running" ELSE task[p]]
            /\ dispatched' = dispatched \cup Range(tasks)
            /\ pc' = "gather"
            /\ UNCHANGED cat
  /\ UNCHANGED <<level, platform_agents, search_strategies, platform_results,
                 search_status, search_error, deadline_exceeded>>
  /\ UNCHANGED <<hierVars, callVars, componentVars>>

\* one source call of the gather ends
CompleteSearch(p, outcome) ==
  /\ pc = "gather"
  /\ task[p] = "running"
  /\ outcome \in SearchPlatformOutcomes
  /\ outcome # "ok" =>
       /\ Cardinality(Failures) < MaxFailures
       /\ Failures \subseteq Range(category_tasks)
  /\ task' = [task EXCEPT ![p] = outcome]
  /\ UNCHANGED <<level, platform_agents, search_strategies, pc, cat,
                 category_tasks, platform_results, dispatched,
                 search_status, search_error, deadline_exceeded>>
  /\ UNCHANGED <<hierVars, callVars, componentVars>>

\* zip(category_platforms, results) followed by the filter of the loop body
ZipResults(c, tasks, results) ==
  [p \in Platforms |->
     IF \E i \in 1..Min(Len(CategoryPlatforms(c)), Len(tasks)) :
          CategoryPlatforms(c)[i] = p /\ task[tasks[i]] = "ok"
     THEN LET i == CHOOSE j \in 1..Min(Len(CategoryPlatforms(c)), Len(tasks)) :
                     CategoryPlatforms(c)[j] = p
          IN tasks[i]
     ELSE results[p]]

\* gather(..., return_exceptions=False): the first exception is raised
GatherReturnPropagating ==
  /\ pc = "gather"
  /\ Range(category_tasks) \subseteq Finished
  /\ IF \E p \in Range(category_tasks) : task[p] = "exc"
     THEN /\ pc' = "raised"
          /\ search_status' = "FAILED"
          /\ search_error' = "SourceError"
          /\ UNCHANGED <<platform_results, cat>>
     ELSE /\ platform_results' =
               ZipResults(category_priority[cat], category_tasks,
                          platform_results)
          /\ cat' = cat + 1
          /\ pc' = "search"
          /\ UNCHANGED <<search_status, search_error>>
  /\ category_tasks' = <<>>
  /\ UNCHANGED <<level, platform_agents, search_strategies, task, dispatched,
                 deadline_exceeded>>
  /\ UNCHANGED <<hierVars, callVars, componentVars>>

\* gather(..., return_exceptions=True) returns once every task has ended
GatherReturn ==
  /\ pc = "gather"
  /\ Range(category_tasks) \subseteq Finished
  /\ platform_results' =
       ZipResults(category_priority[cat], category_tasks, platform_results)
  /\ category_tasks' = <<>>
  /\ cat' = cat + 1
  /\ pc' = "search"
  /\ UNCHANGED <<level, platform_agents, search_strategies, task, dispatched,
                 search_status, search_error, deadline_exceeded>>
  /\ UNCHANGED <<hierVars, callVars, componentVars>>

\* return platform_results, then STEPS 3-6 of process_email
SearchReturn ==
  /\ pc = "search"
  /\ cat > Len(category_priority)
  /\ pc' = "correlate"
  /\ UNCHANGED <<level, platform_agents, search_strategies, cat,
                 category_tasks, task, platform_results, dispatched,
                 search_status, search_error, deadline_exceeded>>
  /\ UNCHANGED <<hierVars, callVars, componentVars>>

ProcessEmailReturn ==
  /\ pc = "correlate"
  /\ \/ /\ pc' = "done"
        /\ search_status' = "COMPLETED"
        /\ UNCHANGED search_error
     \/ /\ pc' = "raised"
        /\ search_status' = "FAILED"
        /\ search_error' = "PipelineError"
  /\ UNCHANGED <<level, platform_agents, search_strategies, cat,
                 category_tasks, task, platform_results, dispatched,
                 deadline_exceeded>>
  /\ UNCHANGED <<hierVars, callVars, componentVars>>

\* the outer deadline of the query passes; no line of process_email reads it
DeadlineElapses ==
  /\ pc \in {"validate", "search", "gather", "correlate"}
  /\ ~deadline_exceeded
  /\ deadline_exceeded' = TRUE
  /\ UNCHANGED <<level, platform_agents, search_strategies, pc, cat,
                 category_tasks, task, platform_results, dispatched,
                 search_status, search_error>>
  /\ UNCHANGED <<hierVars, callVars, componentVars>>

\* ------------------------------------ social_agent.py, the source calls
MAX_RETRIES == 3
PlatformTimeoutDefault == 45
Pending == 0 - 2
EmptyList == 0 - 1

\* getattr(self.settings.agents, f"{platform.upper()}_TIMEOUT", 45)
platform_timeout(p) ==
  CASE p = "linkedin"  -> 30
    [] p = "github"    -> 15
    [] p = "twitter"   -> 20
    [] p = "facebook"  -> 25
    [] p = "instagram" -> 35
    [] OTHER           -> PlatformTimeoutDefault

\* the category each kind of search walks through
KindCategory(k) == IF k = "messaging" THEN "MESSAGING" ELSE "SPECIALIZED"
KindPlatforms(k) == CategoryPlatforms(KindCategory(k))

\* "for attempt in range(max_retries)": is there an iteration after attempt a
loop_continues_off_by_one(a) == a + 1 < MAX_RETRIES + 1
loop_continues(a) == a + 1 < MAX_RETRIES

\* "if attempt < max_retries - 1: await asyncio.sleep(2 ** attempt)"
sleeps_after(a) == a < MAX_RETRIES - 1
backoff_delay(a) == 2 ^ a

\* the coroutines that keep the event loop's thread while they wait
EventLoopHoldersBlockingSleep == {p \in Platforms : cpc[p] = "sleep"}
\* every wait of a source call is an await (asyncio.sleep, the agent's
\* coroutine): a waiting call leaves the thread to the loop
EventLoopHolders == {}

CanRun(p) == EventLoopHolders \subseteq {p}

\* wait_for(..., timeout=timeout) of _search_specialized_platform; the
\* phone search awaits the agent without a timeout
attempt_timeout(k, p) ==
  IF k = "specialized" THEN platform_timeout(p) ELSE MaxElapsed

\* _execute_messaging_platform_search / _execute_specialized_platform_search
\* up to the gather: the tasks run to their first await
StartPlatformSearch(k, capable) ==
  /\ search_kind = "none"
  /\ pc = "idle" /\ hpc = "idle"
  /\ level # "none"
  /\ Platforms \ capable \subseteq Range(KindPlatforms(k))
  /\ Cardinality(Platforms \ capable) <= MaxSkipped
  /\ k = "specialized" => capable = Platforms
  /\ search_kind' = k
  /\ phone_capable' = capable
  /\ LET tasks == SelectIn(KindPlatforms(k),
                           platform_agents \cap capable) IN
       /\ category_tasks' = tasks
       /\ dispatched' = Range(tasks)
       /\ cpc' = [p \in Platforms |->
                    IF p \in Range(tasks) THEN "attempt" ELSE cpc[p]]
  /\ UNCHANGED <<attempt, elapsed, attempt_log, result_of>>
  /\ UNCHANGED <<level, platform_agents, search_strategies, pc, cat, task,
                 platform_results, search_status, search_error,
                 deadline_exceeded>>
  /\ UNCHANGED <<hierVars, componentVars>>

\* after a failed attempt: the backoff, the next iteration or "return []"
AfterFailure(p, how) ==
  /\ attempt_log' = [attempt_log EXCEPT ![p] = Append(@, how)]
  /\ elapsed' = [elapsed EXCEPT ![p] = 0]
  /\ IF sleeps_after(attempt[p])
     THEN cpc' = [cpc EXCEPT ![p] = "sleep"] /\ UNCHANGED <<attempt, result_of>>
     ELSE IF loop_continues(attempt[p])
          THEN /\ attempt' = [attempt EXCEPT ![p] = @ + 1]
               /\ UNCHANGED <<cpc, result_of>>
          ELSE /\ cpc' = [cpc EXCEPT ![p] = "done"]
               /\ result_of' = [result_of EXCEPT ![p] = EmptyList]
               /\ UNCHANGED attempt

\* the agent's search returns a list: "return results"
AttemptReturns(p) ==
  /\ cpc[p] = "attempt"
  /\ CanRun(p)
  /\ attempt_log' = [attempt_log EXCEPT ![p] = Append(@, "ok")]
  /\ result_of' = [result_of EXCEPT ![p] = attempt[p]]
  /\ cpc' = [cpc EXCEPT ![p] = "done"]
  /\ elapsed' = [elapsed EXCEPT ![p] = 0]
  /\ UNCHANGED <<search_kind, phone_capable, attempt>>
  /\ UNCHANGED searchVars
  /\ UNCHANGED <<hierVars, componentVars>>

\* the attempt raises: "except Exception"
AttemptRaises(p) ==
  /\ cpc[p] = "attempt"
  /\ CanRun(p)
  /\ AfterFailure(p, "error")
  /\ UNCHANGED <<search_kind, phone_capable>>
  /\ UNCHANGED searchVars
  /\ UNCHANGED <<hierVars, componentVars>>

\* wait_for cancels the attempt at its timeout: "except asyncio.TimeoutError"
AttemptTimesOut(p) ==
  /\ search_kind = "specialized"
  /\ cpc[p] = "attempt"
  /\ CanRun(p)
  /\ elapsed[p] >= attempt_timeout(search_kind, p)
  /\ AfterFailure(p, "timeout")
  /\ UNCHANGED <<search_kind, phone_capable>>
  /\ UNCHANGED searchVars
  /\ UNCHANGED <<hierVars, componentVars>>

\* asyncio.sleep(2 ** attempt) is over: the next iteration of the loop
Wake(p) ==
  /\ cpc[p] = "sleep"
  /\ CanRun(p)
  /\ IF loop_continues(attempt[p])
     THEN /\ attempt' = [attempt EXCEPT ![p] = @ + 1]
          /\ cpc' = [cpc EXCEPT ![p] = "attempt"]
          /\ UNCHANGED result_of
     ELSE /\ cpc' = [cpc EXCEPT ![p] = "done"]
          /\ result_of' = [result_of EXCEPT ![p] = EmptyList]
          /\ UNCHANGED attempt
  /\ UNCHANGED <<search_kind, phone_capable, elapsed, attempt_log>>
  /\ UNCHANGED searchVars
  /\ UNCHANGED <<hierVars, componentVars>>

\* time passes for the attempts in flight
Tick ==
  /\ search_kind # "none"
  /\ \E p \in Platforms : cpc[p] = "attempt"
  /\ \A p \in Platforms :
       cpc[p] = "attempt" => elapsed[p] < attempt_timeout(search_kind, p)
  /\ elapsed' = [p \in Platforms |->
                   IF cpc[p] = "attempt"
                   THEN Min(elapsed[p] + TickSeconds,
                            attempt_timeout(search_kind, p))
                   ELSE elapsed[p]]
  /\ UNCHANGED <<search_kind, phone_capable, cpc, attempt, attempt_log,
                 result_of>>
  /\ UNCHANGED searchVars
  /\ UNCHANGED <<hierVars, componentVars>>

\* zip(messaging_platforms, results): the list at position i of the tasks
\* is stored under the platform at position i of the category
ZipCallResults(k, tasks) ==
  [p \in Platforms |->
     IF \E i \in 1..Min(Len(KindPlatforms(k)), Len(tasks)) :
          KindPlatforms(k)[i] = p
     THEN LET i == CHOOSE j \in 1..Min(Len(KindPlatforms(k)), Len(tasks)) :
                     KindPlatforms(k)[j] = p
          IN tasks[i]
     ELSE Absent]

\* the gather returns once every call has ended; the results are zipped
PlatformSearchReturn ==
  /\ search_kind # "none"
  /\ pc = "idle"
  /\ \A p \in Range(category_tasks) : cpc[p] = "done"
  /\ platform_results' = ZipCallResults(search_kind, category_tasks)
  /\ category_tasks' = <<>>
  /\ pc' = "returned"
  /\ UNCHANGED <<level, platform_agents, search_strategies, cat, task,
                 dispatched, search_status, search_error, deadline_exceeded>>
  /\ UNCHANGED callVars
  /\ UNCHANGED <<hierVars, componentVars>>

\* ---------------------------------------------------------- ai_hierarchy.py
\* AIAgentRole, in the order orchestrate_analysis runs the phases
Roles == <<"COLLECTOR", "ANALYZER", "VALIDATOR", "CORRELATOR",
           "DECISION_MAKER", "OVERSIGHT">>

\* a Python value is modelled by its equality class (val) and its str() (repr)
DictAB == [val |-> "dict_a1_b2", repr |-> "{'a': 1, 'b': 2}"]
DictBA == [val |-> "dict_a1_b2", repr |-> "{'b': 2, 'a': 1}"]
Int1 == [val |-> "int_1", repr |-> "1"]
Str1 == [val |-> "str_1", repr |-> "1"]
Decisions == {DictAB, DictBA, Int1, Str1}
PyNone == [val |-> "None", repr |-> "None"]
NoDecision == [val |-> "absent", repr |-> "absent"]
PyEq(x, y) == x.val = y.val

\* weights are w / WeightDen
WeightDen == 2 * WeightHalfSteps
DefaultWeight == WeightHalfSteps
NoEntry == 0 - 2
NoRate == 0 - 1
MetricsValues == {NoEntry, NoRate} \cup (0..WeightDen)

\* agent_metrics.get(agent_id, {}).get('success_rate', 0.5)
agent_weight(metrics, key) ==
  IF key \in DOMAIN metrics /\ metrics[key] >= 0 THEN metrics[key]
  ELSE DefaultWeight

RECURSIVE SumWeights(_)
SumWeights(wds) ==
  IF wds = <<>> THEN 0 ELSE Head(wds).weight + SumWeights(Tail(wds))

RECURSIVE SelectSeq2(_, _)
SelectSeq2(s, S) ==
  IF s = <<>> THEN <<>>
  ELSE IF Head(s) \in S THEN <<Head(s)>> \o SelectSeq2(Tail(s), S)
       ELSE SelectSeq2(Tail(s), S)

\* decision_hash = md5(str(decision)): one hash per distinct str()
decision_hash(d) == d.repr

\* decision_groups: the hashes in the order of their first occurrence
RECURSIVE GroupKeys(_, _)
GroupKeys(wds, seen) ==
  IF wds = <<>> THEN <<>>
  ELSE LET h == decision_hash(Head(wds).decision) IN
       IF h \in seen THEN GroupKeys(Tail(wds), seen)
       ELSE <<h>> \o GroupKeys(Tail(wds), seen \cup {h})

GroupOf(wds, h) ==
  SelectSeq2(wds, {wd \in Range(wds) : decision_hash(wd.decision) = h})

\* the loop "for group_hash, decisions in decision_groups.items()"
RECURSIVE BestGroupLoop(_, _, _, _)
BestGroupLoop(wds, keys, best_group, max_weight) ==
  IF keys = <<>> THEN [best_group |-> best_group, max_weight |-> max_weight]
  ELSE LET decisions == GroupOf(wds, Head(keys))
           group_weight == SumWeights(decisions)
       IN IF group_weight > max_weight
          THEN BestGroupLoop(wds, Tail(keys), decisions, group_weight)
          ELSE BestGroupLoop(wds, Tail(keys), best_group, max_weight)

AgentIds(wds) == [i \in DOMAIN wds |-> wds[i].agent_id]

\* the confidence divides by the number of decisions instead of their weight
find_consensus_decision_by_count(wds) ==
  LET r == BestGroupLoop(wds, GroupKeys(wds, {}), <<>>, 0)
      best_group == r.best_group
  IN IF best_group = <<>>
     THEN [primary_decision |-> PyNone, confidence |-> <<0, 1>>,
           supporting_evidence |-> <<>>, dissenting_opinions |-> <<>>,
           quality_score |-> <<0, 1>>]
     ELSE [primary_decision |-> best_group[1].decision,
           confidence |-> <<r.max_weight, WeightDen * Len(wds)>>,
           supporting_evidence |-> AgentIds(best_group),
           dissenting_opinions |->
             AgentIds(SelectSeq2(wds, Range(wds) \ Range(best_group))),
           quality_score |-> <<r.max_weight * Len(best_group),
                               WeightDen * Len(wds) * Len(wds)>>]

\* _find_consensus_decision; a quotient a / b is the pair <<a, b>>
find_consensus_decision(wds) ==
  LET r == BestGroupLoop(wds, GroupKeys(wds, {}), <<>>, 0)
      best_group == r.best_group
      total_possible_weight == SumWeights(wds)
      confidence == IF total_possible_weight > 0
                    THEN <<r.max_weight, total_possible_weight>>
                    ELSE <<0, 1>>
  IN IF best_group = <<>>
     THEN [primary_decision |-> PyNone, confidence |-> <<0, 1>>,
           supporting_evidence |-> <<>>, dissenting_opinions |-> <<>>,
           quality_score |-> <<0, 1>>]
     ELSE [primary_decision |-> best_group[1].decision,
           confidence |-> confidence,
           supporting_evidence |-> AgentIds(best_group),
           dissenting_opinions |->
             AgentIds(SelectSeq2(wds, Range(wds) \ Range(best_group))),
           quality_score |-> <<confidence[1] * Len(best_group),
                               confidence[2] * Len(wds)>>]

\* weighted_decisions, in the order of agent_decisions.items()
RECURSIVE WeightedDecisions(_, _, _)
WeightedDecisions(decs, metrics, i) ==
  IF i \notin DOMAIN decs THEN <<>>
  ELSE IF decs[i] = NoDecision THEN WeightedDecisions(decs, metrics, i + 1)
       ELSE <<[decision |-> decs[i],
               weight |-> agent_weight(metrics, <<"DECISION_MAKER", i>>),
               agent_id |-> i]>>
            \o WeightedDecisions(decs, metrics, i + 1)

\* _aggregate_decisions
aggregate_decisions(decs, metrics) ==
  IF \A i \in DOMAIN decs : decs[i] = NoDecision
  THEN [primary_decision |-> PyNone, confidence |-> <<0, 1>>,
        supporting_evidence |-> <<>>, dissenting_opinions |-> <<>>,
        quality_score |-> <<0, 1>>]
  ELSE find_consensus_decision(WeightedDecisions(decs, metrics, 1))

NotDecided ==
  [primary_decision |-> NoDecision, confidence |-> <<0, 1>>,
   supporting_evidence |-> <<>>, dissenting_opinions |-> <<>>,
   quality_score |-> <<0, 1>>]

\* the registry: MaxAgents agents per role, in registration order
agent_registry == [r \in Range(Roles) |-> [i \in 1..MaxAgents |-> <<r, i>>]]
MetricsKeys ==
  Range(Roles) \X (0..(IF MaxAgents > MaxDeciders THEN MaxAgents
                       ELSE MaxDeciders))

\* the key _execute_agent_with_oversight computes for the agent: the first
\* key of agent_registry (a role) whose dict holds agent_data
metrics_key_of(role, i) == <<role, 0>>

\* _update_agent_metrics, as far as the source shows it: a missing entry
\* is created
update_agent_metrics(metrics, key) ==
  [k \in DOMAIN metrics |->
     IF k = key /\ metrics[k] = NoEntry THEN NoRate ELSE metrics[k]]

RaisedAgents ==
  {a \in Range(Roles) \X (1..MaxAgents) :
     agent_outcome[a[1]][a[2]] = "raised"}

InitHier ==
  /\ hpc = "idle"
  /\ phase = 1
  /\ hidx = 1
  /\ agent_outcome = [r \in Range(Roles) |-> [i \in 1..MaxAgents |-> "pending"]]
  /\ phase_results = [r \in Range(Roles) |-> [i \in 1..MaxAgents |-> "absent"]]
  /\ agent_decisions = [i \in 1..MaxAgents |-> NoDecision]
  /\ agent_metrics = [k \in MetricsKeys |-> NoEntry]
  /\ final_decision = NotDecided

\* the manager neither reads nor writes the resource strategy: its phases
\* are followed from the state in which no strategy has been stored
orchestrate_analysis ==
  /\ hpc = "idle"
  /\ pc = "idle"
  /\ level = "none"
  /\ hpc' = "run"
  /\ UNCHANGED <<phase, hidx, agent_outcome, phase_results, agent_decisions,
                 agent_metrics, final_decision>>
  /\ UNCHANGED <<searchVars, callVars, componentVars>>

\* "result = await task" of a phase loop: _execute_agent_with_oversight
\* runs the agent's method and returns its result
AwaitAgentReturns(d) ==
  /\ hpc = "run"
  /\ hidx <= Len(agent_registry[Roles[phase]])
  /\ LET role == Roles[phase] IN
       /\ agent_outcome' = [agent_outcome EXCEPT ![role][hidx] = "returned"]
       /\ agent_metrics' =
            update_agent_metrics(agent_metrics, metrics_key_of(role, hidx))
       /\ phase_results' = [phase_results EXCEPT ![role][hidx] = "result"]
       /\ IF role = "DECISION_MAKER"
          THEN agent_decisions' = [agent_decisions EXCEPT ![hidx] = d]
          ELSE d = DictAB /\ UNCHANGED agent_decisions
  /\ hidx' = hidx + 1
  /\ UNCHANGED <<hpc, phase, final_decision>>
  /\ UNCHANGED <<searchVars, callVars, componentVars>>

\* the awaited agent raises (or lacks the method): the except branch of
\* the phase loop
AwaitAgentRaises ==
  /\ hpc = "run"
  /\ hidx <= Len(agent_registry[Roles[phase]])
  /\ Cardinality(RaisedAgents) < MaxFailures
  /\ \A a \in RaisedAgents : a[1] = Roles[phase]
  /\ LET role == Roles[phase] IN
       /\ agent_outcome' = [agent_outcome EXCEPT ![role][hidx] = "raised"]
       /\ agent_metrics' =
            update_agent_metrics(agent_metrics, metrics_key_of(role, hidx))
       /\ phase_results' =
            [phase_results EXCEPT ![role][hidx] =
               IF role = "COLLECTOR" THEN "error" ELSE "absent"]
  /\ hidx' = hidx + 1
  /\ UNCHANGED <<hpc, phase, agent_decisions, final_decision>>
  /\ UNCHANGED <<searchVars, callVars, componentVars>>

\* the end of a phase; the decision phase aggregates the decisions
PhaseReturn ==
  /\ hpc = "run"
  /\ hidx > Len(agent_registry[Roles[phase]])
  /\ final_decision' =
       IF Roles[phase] = "DECISION_MAKER"
       THEN aggregate_decisions(agent_decisions, agent_metrics)
       ELSE final_decision
  /\ IF phase < Len(Roles)
     THEN phase' = phase + 1 /\ hidx' = 1 /\ UNCHANGED hpc
     ELSE hpc' = "done" /\ UNCHANGED <<phase, hidx>>
  /\ UNCHANGED <<agent_outcome, phase_results, agent_decisions, agent_metrics>>
  /\ UNCHANGED <<searchVars, callVars, componentVars>>

\* ------------------------------------------------------- agent_generator.py
\* agents generate_agent can register in one run
MaxGenerated == 2

\* performance_thresholds: rates in tenths, response time in seconds
success_rate_min == 7
response_time_max == 30
error_rate_max == 3
\* timedelta(hours=1), in minutes
SuccessWindow == 60

\* AgentPerformance; last_success is kept as the minutes elapsed since that
\* success at the time the record is read, NoSuccess standing for None
NoSuccess == 0 - 1
SuccessRates == {6, 7, 10}
ResponseTimes == {0, 30, 31}
ErrorRates == {0, 3, 4}
LastSuccessAges == {NoSuccess, 0, 60, 61}
RequestCounts == {0, 1}
AgentPerformances ==
  [success_rate : SuccessRates, avg_response_time : ResponseTimes,
   error_rate : ErrorRates, last_success : LastSuccessAges,
   total_requests : RequestCounts]

\* the AgentPerformance generate_agent builds
InitialPerformance ==
  [success_rate |-> 10, avg_response_time |-> 0, error_rate |-> 0,
   last_success |-> 0, total_requests |-> 0]

\* records written into an agent's performance while it is in use
PerformanceSamples ==
  { InitialPerformance,
    [InitialPerformance EXCEPT !.success_rate = 6, !.error_rate = 4,
                               !.total_requests = 1],
    [InitialPerformance EXCEPT !.avg_response_time = 31,
                               !.total_requests = 1],
    [InitialPerformance EXCEPT !.last_success = 61, !.total_requests = 1] }

\* the fields GeneratedAgent would have with a field config
GeneratedAgentFieldsWithConfig ==
  {"agent_id", "platform", "agent_class", "performance", "status",
   "config_hash", "config"}

\* the fields of the dataclass GeneratedAgent
GeneratedAgentFields ==
  {"agent_id", "platform", "agent_class", "performance", "status",
   "config_hash"}

GeneratorPlatforms == {"linkedin", "github"}
AgentKeys == 1..MaxGenerated
NoAgent ==
  [platform |-> "none", status |-> "absent",
   performance |-> InitialPerformance, instance |-> 0]
\* a GeneratedAgent as generate_agent builds it; instance tells one
\* generated object from another
NewAgent(platform, n) ==
  [platform |-> platform, status |-> "healthy",
   performance |-> InitialPerformance, instance |-> n]

\* _check_agent_health
check_agent_health(perf) ==
  IF \/ perf.success_rate < success_rate_min
     \/ perf.avg_response_time > response_time_max
     \/ perf.error_rate > error_rate_max
  THEN FALSE
  ELSE IF /\ perf.last_success # NoSuccess
          /\ perf.last_success > SuccessWindow
          /\ perf.total_requests > 0
       THEN FALSE
       ELSE TRUE

\* active_agents.items(): the ids in insertion order
RECURSIVE KeysFrom(_)
KeysFrom(k) ==
  IF k \notin AgentKeys THEN <<>>
  ELSE IF active_agents[k] = NoAgent THEN KeysFrom(k + 1)
       ELSE <<k>> \o KeysFrom(k + 1)
ActiveKeys == KeysFrom(1)
FreeKeys == {k \in AgentKeys : active_agents[k] = NoAgent}
NextInstance ==
  1 + Cardinality({k \in AgentKeys : active_agents[k] # NoAgent})

InitGenerator ==
  /\ active_agents = [k \in AgentKeys |-> NoAgent]
  /\ monitor_pc = "idle"
  /\ monitor_idx = 1
  /\ agents_to_replace = <<>>

\* generate_agent called by the start-up sequence, returning the agent
generate_agent(platform) ==
  /\ monitor_pc = "idle"
  /\ FreeKeys # {}
  /\ LET k == CHOOSE f \in FreeKeys : \A g \in FreeKeys : f <= g IN
       active_agents' = [active_agents EXCEPT ![k] = NewAgent(platform, k)]
  /\ UNCHANGED <<monitor_pc, monitor_idx, agents_to_replace>>
  /\ UNCHANGED <<searchVars, hierVars, callVars, baseAgentVars,
                 orchestratorVars, linkedinVars, scoreVars, detectorVars,
                 taskVars, limiterVars, routeVars, workerVars, registryVars,
                 optimizerVars>>

\* the fields of agent.performance are assigned by the code that uses it
record_performance(k, perf) ==
  /\ monitor_pc = "idle"
  /\ active_agents[k] # NoAgent
  /\ active_agents[k].performance # perf
  /\ active_agents' = [active_agents EXCEPT ![k].performance = perf]
  /\ UNCHANGED <<monitor_pc, monitor_idx, agents_to_replace>>
  /\ UNCHANGED <<searchVars, hierVars, callVars, baseAgentVars,
                 orchestratorVars, linkedinVars, scoreVars, detectorVars,
                 taskVars, limiterVars, routeVars, workerVars, registryVars,
                 optimizerVars>>

\* monitor_agent_health up to its first loop
monitor_agent_health ==
  /\ monitor_pc = "idle"
  /\ ActiveKeys # <<>>
  /\ monitor_pc' = "check"
  /\ monitor_idx' = 1
  /\ agents_to_replace' = <<>>
  /\ UNCHANGED active_agents
  /\ UNCHANGED <<searchVars, hierVars, callVars, baseAgentVars,
                 orchestratorVars, linkedinVars, scoreVars, detectorVars,
                 taskVars, limiterVars, routeVars, workerVars, registryVars,
                 optimizerVars>>

\* one iteration of "for agent_id, agent in self.active_agents.items()"
CheckAgent ==
  /\ monitor_pc = "check"
  /\ monitor_idx <= Len(ActiveKeys)
  /\ LET k == ActiveKeys[monitor_idx] IN
       IF check_agent_health(active_agents[k].performance)
       THEN /\ active_agents' = [active_agents EXCEPT ![k].status = "healthy"]
            /\ UNCHANGED agents_to_replace
       ELSE /\ active_agents' = [active_agents EXCEPT ![k].status = "failing"]
            /\ agents_to_replace' = Append(agents_to_replace, k)
  /\ monitor_idx' = monitor_idx + 1
  /\ UNCHANGED monitor_pc
  /\ UNCHANGED <<searchVars, hierVars, callVars, baseAgentVars,
                 orchestratorVars, linkedinVars, scoreVars, detectorVars,
                 taskVars, limiterVars, routeVars, workerVars, registryVars,
                 optimizerVars>>

\* the first loop is over: "for agent_id in agents_to_replace"
StartReplacements ==
  /\ monitor_pc = "check"
  /\ monitor_idx > Len(ActiveKeys)
  /\ monitor_pc' = "replace"
  /\ monitor_idx' = 1
  /\ UNCHANGED <<active_agents, agents_to_replace>>
  /\ UNCHANGED <<searchVars, hierVars, callVars, baseAgentVars,
                 orchestratorVars, linkedinVars, scoreVars, detectorVars,
                 taskVars, limiterVars, routeVars, workerVars, registryVars,
                 optimizerVars>>

\* _replace_failing_agent: reading old_agent.config raises AttributeError
\* when GeneratedAgent has no such field, and the except branch only logs;
\* otherwise generate_agent registers the new agent under its own id and
\* the agent is stored under the old id as well, or generate_agent raises
replace_failing_agent ==
  /\ monitor_pc = "replace"
  /\ monitor_idx <= Len(agents_to_replace)
  /\ LET k == agents_to_replace[monitor_idx] IN
       IF "config" \notin GeneratedAgentFields \/ FreeKeys = {}
       THEN UNCHANGED active_agents
       ELSE \/ UNCHANGED active_agents
            \/ LET f == CHOOSE g \in FreeKeys : \A h \in FreeKeys : g <= h
                   new == NewAgent(active_agents[k].platform, NextInstance)
               IN active_agents' =
                    [active_agents EXCEPT ![f] = new, ![k] = new]
  /\ monitor_idx' = monitor_idx + 1
  /\ UNCHANGED <<monitor_pc, agents_to_replace>>
  /\ UNCHANGED <<searchVars, hierVars, callVars, baseAgentVars,
                 orchestratorVars, linkedinVars, scoreVars, detectorVars,
                 taskVars, limiterVars, routeVars, workerVars, registryVars,
                 optimizerVars>>

\* the second loop is over: "return health_report"
MonitorReturn ==
  /\ monitor_pc = "replace"
  /\ monitor_idx > Len(agents_to_replace)
  /\ monitor_pc' = "idle"
  /\ monitor_idx' = 1
  /\ UNCHANGED <<active_agents, agents_to_replace>>
  /\ UNCHANGED <<searchVars, hierVars, callVars, baseAgentVars,
                 orchestratorVars, linkedinVars, scoreVars, detectorVars,
                 taskVars, limiterVars, routeVars, workerVars, registryVars,
                 optimizerVars>>

\* ------------------------------------------------------------ base_agent.py
\* invocations of _make_request that are followed
MaxRequests == 4

\* "if self.metrics.consecutive_failures > 3"
DegradedAfter == 3

\* how an invocation of _make_request can go once the request is sent
RequestOutcomes ==
  {"2xx", "2xx_body_raises", "429", "http_error", "timeout", "exception"}
\* where the X-RateLimit-Reset header of a 429 response puts the reset
ResetHeaders == {"no_header", "future", "past", "unparsable"}
\* session.get of health_check: a status in [200, 401, 403], another
\* status, or an exception
HealthCheckOutcomes == {"reachable", "other_status", "exception"}

InitBaseAgent ==
  /\ agent_status = "healthy"
  /\ base_metrics = [total_requests |-> 0, successful_requests |-> 0,
                failed_requests |-> 0, consecutive_failures |-> 0]
  /\ rate_limit_reset = "none"
  /\ requests_sent = 0
  /\ request_returned = "none"

\* _is_rate_limited, if it never found the agent limited
is_rate_limited_never == FALSE

\* _is_rate_limited: rate_limit_reset is set and lies in the future
is_rate_limited == rate_limit_reset = "future"

\* _handle_rate_limit
handle_rate_limit(header) ==
  /\ agent_status' = "rate_limited"
  /\ rate_limit_reset' = IF header = "past" THEN "past" ELSE "future"

failed_request(mt) ==
  [mt EXCEPT !.failed_requests = @ + 1, !.consecutive_failures = @ + 1]

\* _make_request, one invocation from its first line to its return
make_request(outcome, header) ==
  /\ base_metrics.total_requests < MaxRequests
  /\ LET counted == [base_metrics EXCEPT !.total_requests = @ + 1] IN
       IF is_rate_limited
       THEN /\ outcome = "exception" /\ header = "no_header"
            /\ base_metrics' = counted
            /\ request_returned' = "failure"
            /\ UNCHANGED <<agent_status, rate_limit_reset, requests_sent>>
       ELSE /\ requests_sent' = requests_sent + 1
            /\ request_returned' =
                 (IF outcome = "2xx" THEN "success" ELSE "failure")
            /\ CASE outcome = "429" ->
                   /\ handle_rate_limit(header)
                   /\ base_metrics' = [counted EXCEPT !.consecutive_failures = @ + 1]
              [] outcome = "2xx" ->
                   /\ header = "no_header"
                   /\ base_metrics' = [counted EXCEPT !.successful_requests = @ + 1,
                                                 !.consecutive_failures = 0]
                   /\ UNCHANGED <<agent_status, rate_limit_reset>>
              [] outcome = "2xx_body_raises" ->
                   /\ header = "no_header"
                   /\ base_metrics' =
                        failed_request(
                          [counted EXCEPT !.successful_requests = @ + 1,
                                          !.consecutive_failures = 0])
                   /\ UNCHANGED <<agent_status, rate_limit_reset>>
              [] outcome = "http_error" ->
                   /\ header = "no_header"
                   /\ base_metrics' = failed_request(counted)
                   /\ agent_status' =
                        IF base_metrics.consecutive_failures + 1 > DegradedAfter
                        THEN "degraded" ELSE agent_status
                   /\ UNCHANGED rate_limit_reset
              [] OTHER ->
                   /\ header = "no_header"
                   /\ base_metrics' = failed_request(counted)
                   /\ UNCHANGED <<agent_status, rate_limit_reset>>
  /\ UNCHANGED <<searchVars, hierVars, callVars, generatorVars,
                 orchestratorVars, linkedinVars, scoreVars, detectorVars,
                 taskVars, limiterVars, routeVars, workerVars, registryVars,
                 optimizerVars>>

\* health_check
health_check(outcome) ==
  /\ IF is_rate_limited
     THEN outcome = "exception" /\ agent_status' = "rate_limited"
     ELSE agent_status' =
            CASE outcome = "reachable"    -> "healthy"
              [] outcome = "other_status" -> "degraded"
              [] OTHER                    -> "offline"
  /\ agent_status' # agent_status
  /\ UNCHANGED <<base_metrics, rate_limit_reset, requests_sent,
                 request_returned>>
  /\ UNCHANGED <<searchVars, hierVars, callVars, generatorVars,
                 orchestratorVars, linkedinVars, scoreVars, detectorVars,
                 taskVars, limiterVars, routeVars, workerVars, registryVars,
                 optimizerVars>>

\* the time of rate_limit_reset is reached
RateLimitExpires ==
  /\ rate_limit_reset = "future"
  /\ rate_limit_reset' = "past"
  /\ UNCHANGED <<agent_status, base_metrics, requests_sent, request_returned>>
  /\ UNCHANGED <<searchVars, hierVars, callVars, generatorVars,
                 orchestratorVars, linkedinVars, scoreVars, detectorVars,
                 taskVars, limiterVars, routeVars, workerVars, registryVars,
                 optimizerVars>>

\* ------------------------------------------------------ linkedin_agent.py
MaxProfiles == 3

NoName == "None:NoneType"
ProfileUrls == {"", "u1", "bob"}
FullNames == {NoName, "", "Bob", "BOB", "bob", "Ann"}
\* the fields of ProfileData that _deduplicate_profiles reads
ProfileDatas == [profile_url : ProfileUrls, full_name : FullNames]
ProfileLists == UNION {[1..n -> ProfileDatas] : n \in 0..MaxProfiles}
NotRun == <<0>>

\* str.lower() on the names of the model
lower_identity(name) == name

lower(name) ==
  CASE name \in {"Bob", "BOB", "bob"} -> "bob"
    [] name = "Ann" -> "ann"
    [] OTHER -> name

\* seen_urls.add(key)
seen_add_forgotten(seen_urls, key) == seen_urls

seen_add(seen_urls, key) == seen_urls \cup {key}

\* the loop of _deduplicate_profiles from position i on; unique holds the
\* positions of the profiles appended so far
RECURSIVE deduplicate_from(_, _, _, _)
deduplicate_from(plist, i, seen_urls, unique) ==
  IF i > Len(plist) THEN unique
  ELSE LET profile == plist[i] IN
       IF profile.profile_url # "" /\ profile.profile_url \notin seen_urls
       THEN deduplicate_from(plist, i + 1,
                             seen_add(seen_urls, profile.profile_url),
                             Append(unique, i))
       ELSE IF /\ profile.profile_url = ""
               /\ profile.full_name # NoName
               /\ profile.full_name # ""
       THEN LET name_key == lower(profile.full_name) IN
            IF name_key \notin seen_urls
            THEN deduplicate_from(plist, i + 1, seen_add(seen_urls, name_key),
                                  Append(unique, i))
            ELSE deduplicate_from(plist, i + 1, seen_urls, unique)
       ELSE deduplicate_from(plist, i + 1, seen_urls, unique)

deduplicate_profiles(plist) == deduplicate_from(plist, 1, {}, <<>>)

InitLinkedin ==
  /\ profiles = <<>>
  /\ unique_profiles = NotRun

\* search_by_email deduplicates what its strategies collected
search_by_email ==
  /\ unique_profiles = NotRun
  /\ unique_profiles' = deduplicate_profiles(profiles)
  /\ UNCHANGED profiles
  /\ UNCHANGED <<searchVars, hierVars, callVars, generatorVars,
                 baseAgentVars, orchestratorVars, scoreVars, detectorVars,
                 taskVars, limiterVars, routeVars, workerVars, registryVars,
                 optimizerVars>>

\* ------------------------------ base_agent.py: _calculate_confidence_score
\* the scores are fractions of ScoreDen: 0.9, 0.7, 0.6 / 4, 0.5 / 365
ScoreDen == 20 * 365
EmailFactor == 9 * 2 * 365
NameFactor == 7 * 2 * 365
CompletenessStep == 3 * 365
RecencyStep == ScoreDen \div (2 * 365)
DefaultScore == <<3, 10>>
NoScore == <<0, 0>>

\* (datetime.now() - last_activity).days: whole days, negative for an instant
\* later than now
DaysAgo == {0 - 3650, 0 - 1, 0, 1, 364, 365, 366, 1000}
LastActivities ==
  {[present |-> FALSE, days_ago |-> 0]}
    \cup {[present |-> TRUE, days_ago |-> d] : d \in DaysAgo}
ProfileDicts ==
  [email_verified : BOOLEAN, full_name : BOOLEAN, location : BOOLEAN,
   company : BOOLEAN, profile_picture : BOOLEAN,
   last_activity : LastActivities]
NoProfileDict ==
  [email_verified |-> FALSE, full_name |-> FALSE, location |-> FALSE,
   company |-> FALSE, profile_picture |-> FALSE,
   last_activity |-> [present |-> FALSE, days_ago |-> 0]]

One(b) == IF b THEN 1 ELSE 0

filled_fields(pd) ==
  One(pd.full_name) + One(pd.location) + One(pd.company)
    + One(pd.profile_picture)

\* max(0, 1 - days_ago / 365), in 365ths
recency_score(days_ago) == Max(0, 365 - days_ago)

\* the list confidence_factors, each factor in units of 1 / ScoreDen
confidence_factors(pd) ==
  (IF pd.email_verified THEN <<EmailFactor>> ELSE <<>>)
    \o (IF pd.full_name THEN <<NameFactor>> ELSE <<>>)
    \o <<filled_fields(pd) * CompletenessStep>>
    \o (IF pd.last_activity.present
        THEN <<recency_score(pd.last_activity.days_ago) * RecencyStep>>
        ELSE <<>>)

RECURSIVE SumSeq(_)
SumSeq(q) == IF q = <<>> THEN 0 ELSE Head(q) + SumSeq(Tail(q))

calculate_confidence_score(pd) ==
  IF confidence_factors(pd) # <<>>
  THEN <<SumSeq(confidence_factors(pd)), Len(confidence_factors(pd)) * ScoreDen>>
  ELSE DefaultScore

InitScore ==
  /\ profile_data = NoProfileDict
  /\ confidence_score = NoScore

\* a platform agent scores the profile it extracted
score_profile ==
  /\ confidence_score = NoScore
  /\ confidence_score' = calculate_confidence_score(profile_data)
  /\ UNCHANGED profile_data
  /\ UNCHANGED <<searchVars, hierVars, callVars, generatorVars,
                 baseAgentVars, orchestratorVars, linkedinVars, detectorVars,
                 taskVars, limiterVars, routeVars, workerVars, registryVars,
                 optimizerVars>>

\* ---------------------------------------------------- deception_detector.py
\* the float literals of the detectors, as values of the float arithmetic
FloatZero == <<0, 0, 0>>
Float02 == <<3276, 1677721, 1258292>>
Float04 == <<6553, 1258291, 419432>>
Float05 == <<8192, 0, 0>>
Float06 == <<9830, 838860, 1677720>>
Float09 == <<14745, 1258291, 419432>>
Float095 == <<15564, 1677721, 1258288>>

\* min(confidence, cap)
capped_not(confidence, cap) == confidence

capped(confidence, cap) == IF FloatGe(confidence, cap) THEN cap ELSE confidence

\* confidence > threshold
exceeds_or_reaches(confidence, threshold) == FloatGe(confidence, threshold)

exceeds(confidence, threshold) == ~FloatGe(threshold, confidence)

Timezones == {"", "UTC", "EST"}
BrowserTimezones == {"", "EST"}
NoFootprint == [present |-> FALSE, system_tz |-> "", ip_tz |-> "",
                browser_tz |-> ""]
DigitalFootprints ==
  {NoFootprint}
    \cup [present : {TRUE}, system_tz : Timezones, ip_tz : Timezones,
          browser_tz : BrowserTimezones]

\* The arguments of analyze_digital_identity, by what its detectors read:
\* the outcome of each analysis of the profiles, whether behavioral_analysis
\* and digital_footprint are given (None otherwise), the timezones of the
\* footprint, and whether the activity falls in the night of the system zone.
Identities ==
  [suspicious_patterns : BOOLEAN, multiple_behavioral_profiles : BOOLEAN,
   style_variations : BOOLEAN, geographic_spread : BOOLEAN,
   behavioral_analysis : BOOLEAN, digital_footprint : DigitalFootprints,
   anomalous_activity : BOOLEAN, excessive_variations : BOOLEAN,
   incomplete_pattern : BOOLEAN, compartmentalized_identity : BOOLEAN]
NoIdentity ==
  [suspicious_patterns |-> FALSE, multiple_behavioral_profiles |-> FALSE,
   style_variations |-> FALSE, geographic_spread |-> FALSE,
   behavioral_analysis |-> FALSE, digital_footprint |-> NoFootprint,
   anomalous_activity |-> FALSE, excessive_variations |-> FALSE,
   incomplete_pattern |-> FALSE, compartmentalized_identity |-> FALSE]

\* one `if signal: evidence.append(...); confidence += weight`
Accumulate(acc, signal, text, weight) ==
  IF signal
  THEN [evidence |-> Append(acc.evidence, text),
        confidence |-> FloatAdd(acc.confidence, weight)]
  ELSE acc
NothingYet == [evidence |-> <<>>, confidence |-> FloatZero]

Raised == [raised |-> TRUE, indicators |-> <<>>]
Returned(indicators) == [raised |-> FALSE, indicators |-> indicators]

\* `if evidence and confidence > threshold: indicators.append(...)`
Emit(type, acc, threshold, cap) ==
  IF acc.evidence # <<>> /\ exceeds(acc.confidence, threshold)
  THEN Returned(<<[type |-> type,
                   confidence |-> capped(acc.confidence, cap),
                   evidence |-> acc.evidence]>>)
  ELSE Returned(<<>>)

detect_shared_accounts(x) ==
  IF ~x.behavioral_analysis
  THEN Raised   \* behavioral_analysis.get in _analyze_activity_patterns
  ELSE Emit("shared_account",
            Accumulate(
              Accumulate(
                Accumulate(
                  Accumulate(NothingYet, x.suspicious_patterns,
                             "Generic username pattern", Weight03),
                  x.multiple_behavioral_profiles,
                  "Multiple distinct behavioral patterns detected", Float04),
                x.style_variations, "Multiple writing styles detected",
                Weight03),
              x.geographic_spread, "Activity from distinct geographic regions",
              Float02),
            Float05, Float095)

timezone_mismatch(fp) ==
  fp.system_tz # "" /\ fp.ip_tz # "" /\ fp.system_tz # fp.ip_tz

\* _analyze_activity_vs_timezone: nothing without a system timezone
night_activity(x) ==
  x.digital_footprint.system_tz # "" /\ x.anomalous_activity

\* _check_timezone_consistency
timezones_consistent(fp) ==
  Cardinality({fp.system_tz, fp.ip_tz, fp.browser_tz} \ {""}) <= 1

\* _detect_dst_anomalies: `return False  # Placeholder`
dst_anomalies(x) == FALSE

detect_timezone_manipulation(x) ==
  IF ~x.digital_footprint.present
  THEN Raised   \* digital_footprint.system_profile of None
  ELSE IF x.digital_footprint.system_tz # "" /\ ~x.behavioral_analysis
  THEN Raised   \* behavioral_analysis.get in _analyze_activity_vs_timezone
  ELSE Emit("timezone_manipulation",
            Accumulate(
              Accumulate(
                Accumulate(
                  Accumulate(NothingYet,
                             timezone_mismatch(x.digital_footprint),
                             "Timezone mismatch", Float06),
                  night_activity(x),
                  "High nighttime activity for declared timezone", Float04),
                ~timezones_consistent(x.digital_footprint),
                "Multiple timezone indicators detected", Weight03),
              dst_anomalies(x), "Daylight Saving Time anomalies detected",
              Float02),
            Float05, Float095)

detect_identity_fragmentation(x) ==
  Emit("identity_fragmentation",
       Accumulate(
         Accumulate(
           Accumulate(NothingYet, x.excessive_variations,
                      "Excessive name variations", Float04),
           x.incomplete_pattern, "Strategic profile incompleteness detected",
           Weight03),
         x.compartmentalized_identity,
         "Compartmentalized identity across platforms", Weight03),
       Float04, Float09)

\* the detection_tasks in the order of the list; the last four return []
detection_tasks(x) ==
  <<detect_shared_accounts(x), detect_timezone_manipulation(x),
    detect_identity_fragmentation(x), Returned(<<>>), Returned(<<>>),
    Returned(<<>>), Returned(<<>>)>>

RECURSIVE ExtendAll(_)
ExtendAll(results) ==
  IF results = <<>> THEN <<>>
  ELSE Head(results).indicators \o ExtendAll(Tail(results))

\* asyncio.gather(*detection_tasks): the first exception is raised to the
\* caller
gather_detectors(results) ==
  IF \E k \in 1..Len(results) : results[k].raised
  THEN [status |-> "raised", deception_indicators |-> <<>>]
  ELSE [status |-> "returned", deception_indicators |-> ExtendAll(results)]

\* asyncio.gather(*detection_tasks, return_exceptions=True)
gather_detectors_isolated(results) ==
  [status |-> "returned",
   deception_indicators |->
     ExtendAll(SelectSeq(results, LAMBDA r : ~r.raised))]

NoAnalysis == [status |-> "none", deception_indicators |-> <<>>]

InitDetector ==
  /\ identity = NoIdentity
  /\ deception_analysis = NoAnalysis

analyze_digital_identity ==
  /\ deception_analysis = NoAnalysis
  /\ deception_analysis' = gather_detectors(detection_tasks(identity))
  /\ UNCHANGED identity
  /\ UNCHANGED <<searchVars, hierVars, callVars, generatorVars,
                 baseAgentVars, orchestratorVars, linkedinVars, scoreVars,
                 taskVars, limiterVars, routeVars, workerVars, registryVars,
                 optimizerVars>>

\* ------------------------------------------- social_agent.py: process_phone
MaxPhoneLen == 3
MaxDigits == 15
PhoneChars == {"+", "0", "1", "-", "x"}
Digits == {"0", "1"}
Phones == UNION {[1..n -> PhoneChars] : n \in 0..MaxPhoneLen}

\* phone.replace(' ', '').replace('-', '')
without_separators(phone) == SelectSeq(phone, LAMBDA c : c \notin {" ", "-"})

\* re.match(r'^\+?[1-9]\d{1,14}$', ...)
matches_international(q) ==
  LET number == IF q # <<>> /\ Head(q) = "+" THEN Tail(q) ELSE q
  IN /\ Len(number) >= 2
     /\ Len(number) <= MaxDigits
     /\ Head(number) \in Digits \ {"0"}
     /\ \A k \in 2..Len(number) : number[k] \in Digits

validate_phone_format(phone) == matches_international(without_separators(phone))

PhoneSearchOutcomes == {"returns", "raises"}
NoPhoneSearch ==
  [phone |-> <<>>, status |-> "none", raised |-> "", source_calls |-> 0]

\* process_phone without `if not self._validate_phone_format(phone): raise`
phone_search_unvalidated(phone, outcome) ==
  [phone |-> phone,
   status |-> IF outcome = "returns" THEN "completed" ELSE "failed",
   raised |-> IF outcome = "returns" THEN "" ELSE "Exception",
   source_calls |-> 1]

\* the entry of active_searches, what the call raised and the number of
\* messaging searches it dispatched
phone_search_of(phone, outcome) ==
  IF ~validate_phone_format(phone)
  THEN [phone |-> phone, status |-> "failed", raised |-> "ValidationError",
        source_calls |-> 0]
  ELSE [phone |-> phone,
        status |-> IF outcome = "returns" THEN "completed" ELSE "failed",
        raised |-> IF outcome = "returns" THEN "" ELSE "Exception",
        source_calls |-> 1]

\* one call is followed
process_phone(phone, outcome) ==
  /\ phone_search = NoPhoneSearch
  /\ phone_search' = phone_search_of(phone, outcome)
  /\ UNCHANGED lookup_task
  /\ UNCHANGED <<searchVars, hierVars, callVars, generatorVars,
                 baseAgentVars, orchestratorVars, linkedinVars, scoreVars,
                 detectorVars, limiterVars, routeVars, workerVars,
                 registryVars, optimizerVars>>

\* ------------------------------------ worker_tasks.py: social_lookup_task
max_retries == 3
default_retry_delay == 60
ValidationOutcomes == {"valid", "invalid"}
LookupOutcomes == {"returns", "raises"}

\* self.request.retries <= self.max_retries
may_retry_once_more(retries) == retries <= max_retries

\* self.request.retries < self.max_retries
may_retry(retries) == retries < max_retries

\* self.default_retry_delay * (2 ** self.request.retries)
retry_delay(retries) == default_retry_delay * 2^retries

\* A submission: the message in the queue (scheduled, countdown in seconds,
\* retries of the request), the TaskResult row (status), and what the
\* executions did (is_valid of the last validation, lookups started, what the
\* last execution returned or raised).
SubmittedTask(advanced_analysis) ==
  [advanced_analysis |-> advanced_analysis, scheduled |-> TRUE, countdown |-> 0,
   retries |-> 0, executions |-> 0, status |-> "pending", is_valid |-> "none",
   lookups |-> 0, returned |-> "none"]

InitTask ==
  /\ lookup_task = SubmittedTask(FALSE)
  /\ phone_search = NoPhoneSearch

\* one execution of the task by a worker
social_lookup_task(validation, lookup) ==
  /\ lookup_task.scheduled
  /\ lookup_task.countdown = 0
  /\ lookup_task' =
       IF validation = "invalid"
       THEN [lookup_task EXCEPT !.executions = @ + 1, !.is_valid = validation,
                         !.status = "failed", !.returned = "error",
                         !.scheduled = FALSE]
       ELSE IF lookup = "returns"
       THEN [lookup_task EXCEPT !.executions = @ + 1, !.is_valid = validation,
                         !.lookups = @ + 1, !.status = "completed",
                         !.returned = "completed", !.scheduled = FALSE]
       ELSE IF may_retry(lookup_task.retries)
       THEN [lookup_task EXCEPT !.executions = @ + 1, !.is_valid = validation,
                         !.lookups = @ + 1, !.status = "failed",
                         !.returned = "retry",
                         !.countdown = retry_delay(lookup_task.retries),
                         !.retries = @ + 1]
       ELSE [lookup_task EXCEPT !.executions = @ + 1, !.is_valid = validation,
                         !.lookups = @ + 1, !.status = "failed",
                         !.returned = "failed", !.scheduled = FALSE]
  /\ UNCHANGED phone_search
  /\ UNCHANGED <<searchVars, hierVars, callVars, generatorVars,
                 baseAgentVars, orchestratorVars, linkedinVars, scoreVars,
                 detectorVars, limiterVars, routeVars, workerVars,
                 registryVars, optimizerVars>>

\* the countdown of a retry runs down
CountdownPasses ==
  /\ lookup_task.scheduled
  /\ lookup_task.countdown > 0
  /\ lookup_task' = [lookup_task EXCEPT !.countdown = @ - default_retry_delay]
  /\ UNCHANGED phone_search
  /\ UNCHANGED <<searchVars, hierVars, callVars, generatorVars,
                 baseAgentVars, orchestratorVars, linkedinVars, scoreVars,
                 detectorVars, limiterVars, routeVars, workerVars,
                 registryVars, optimizerVars>>

\* ------------------------------------------------- security/rate_limiter.py
MaxTicks == 5
MaxChecks == 7
CleanupSize == 1000
CleanupAge == 3600
TickLength == CleanupAge \div 2
Identifiers == {"lookup_u1", "batch_lookup_u1"}

\* the limit and the window the routes pass for an identifier
limit_of(identifier) == IF identifier = "lookup_u1" THEN 2 ELSE 5
window_of(identifier) == IF identifier = "lookup_u1" THEN 3600 ELSE 86400

NoTimes == <<-1>>   \* identifier not in self.requests
TimesOf(reqs, identifier) ==
  IF reqs[identifier] = NoTimes THEN <<>> ELSE reqs[identifier]

\* [req_time for req_time in self.requests[identifier] if req_time > window_start]
clean_old_requests(times, window_start) ==
  SelectSeq(times, LAMBDA req_time : req_time > window_start)

RECURSIVE MaxOf(_)
MaxOf(times) ==
  IF Len(times) = 1 THEN Head(times) ELSE Max(Head(times), MaxOf(Tail(times)))

\* `not times or max(times) < now - 3600`
is_old_identifier(times, t) == times = <<>> \/ MaxOf(times) < t - CleanupAge

\* the clean-up of old identifiers, once the dict has more than 1000 keys
clean_old_identifiers(reqs, others, t) ==
  IF Cardinality({i \in Identifiers : reqs[i] # NoTimes}) + others > CleanupSize
  THEN [i \in Identifiers |->
          IF reqs[i] # NoTimes /\ is_old_identifier(reqs[i], t)
          THEN NoTimes ELSE reqs[i]]
  ELSE reqs

InitLimiter ==
  /\ requests = [i \in Identifiers |-> NoTimes]
  /\ now = 0
  /\ other_identifiers = 0
  /\ admitted = [i \in Identifiers |-> <<>>]
  /\ response = [identifier |-> "", status |-> 0, checks |-> 0]

check_rate_limit(identifier, limit, window) ==
  /\ response.checks < MaxChecks
  /\ LET kept == clean_old_requests(TimesOf(requests, identifier), now - window)
     IN IF Len(kept) >= limit
        THEN /\ requests' = [requests EXCEPT ![identifier] = kept]
             /\ response' = [identifier |-> identifier, status |-> 429,
                             checks |-> response.checks + 1]
             /\ UNCHANGED admitted
        ELSE /\ requests' =
                  clean_old_identifiers(
                    [requests EXCEPT ![identifier] = Append(kept, now)],
                    other_identifiers, now)
             /\ admitted' = [admitted EXCEPT ![identifier] = Append(@, now)]
             /\ response' = [identifier |-> identifier, status |-> 200,
                             checks |-> response.checks + 1]
  /\ UNCHANGED <<now, other_identifiers>>
  /\ UNCHANGED <<searchVars, hierVars, callVars, generatorVars,
                 baseAgentVars, orchestratorVars, linkedinVars, scoreVars,
                 detectorVars, taskVars, routeVars, workerVars, registryVars,
                 optimizerVars>>

\* time.time() advances
TimePasses ==
  /\ now < MaxTicks * TickLength
  /\ now' = now + TickLength
  /\ UNCHANGED <<requests, other_identifiers, admitted, response>>
  /\ UNCHANGED <<searchVars, hierVars, callVars, generatorVars,
                 baseAgentVars, orchestratorVars, linkedinVars, scoreVars,
                 detectorVars, taskVars, routeVars, workerVars, registryVars,
                 optimizerVars>>

\* ---------------------------------------- api_routes.py: the task routes
MaxApiCalls == 2
TaskIds == {"t1", "t2"}
RowStatuses == {"pending", "processing", "completed", "failed", "cancelled"}
NoRow == [status |-> "absent", completed_at |-> FALSE]
TaskRows ==
  {NoRow} \cup [status : RowStatuses, completed_at : BOOLEAN]
NoResponse ==
  [route |-> "", task_id |-> "", status_code |-> 0, body |-> "", calls |-> 0]

\* a check that refuses failed tasks only
cancellable_unless_failed(row) == row.status # "failed"

\* `task.status not in ["pending", "processing"]` negated
cancellable(row) == row.status \in {"pending", "processing"}

\* an HTTPException raised inside the try is caught by `except Exception`
\* and raised again as 500
ErrorResponse(route, task_id) ==
  [route |-> route, task_id |-> task_id, status_code |-> 500, body |-> "error",
   calls |-> api_response.calls + 1]

InitRoutes ==
  /\ task_results = [t \in TaskIds |-> NoRow]
  /\ api_response = NoResponse

cancel_task(task_id) ==
  /\ api_response.calls < MaxApiCalls
  /\ IF task_results[task_id] = NoRow \/ ~cancellable(task_results[task_id])
     THEN /\ api_response' = ErrorResponse("cancel_task", task_id)
          /\ UNCHANGED task_results
     ELSE /\ task_results' =
               [task_results EXCEPT ![task_id] =
                  [status |-> "cancelled", completed_at |-> TRUE]]
          /\ api_response' =
               [route |-> "cancel_task", task_id |-> task_id,
                status_code |-> 200, body |-> "cancelled",
                calls |-> api_response.calls + 1]
  /\ UNCHANGED <<searchVars, hierVars, callVars, generatorVars,
                 baseAgentVars, orchestratorVars, linkedinVars, scoreVars,
                 detectorVars, taskVars, limiterVars, workerVars,
                 registryVars, optimizerVars>>

\* the construction of the LookupResponse from the row returns or raises
ConversionOutcomes == {"returns", "raises"}

get_task_results(task_id, conversion) ==
  /\ api_response.calls < MaxApiCalls
  /\ api_response' =
       IF \/ task_results[task_id] = NoRow
          \/ task_results[task_id].status # "completed"
          \/ conversion = "raises"
       THEN ErrorResponse("get_task_results", task_id)
       ELSE [route |-> "get_task_results", task_id |-> task_id,
             status_code |-> 200, body |-> "results",
             calls |-> api_response.calls + 1]
  /\ UNCHANGED task_results
  /\ UNCHANGED <<searchVars, hierVars, callVars, generatorVars,
                 baseAgentVars, orchestratorVars, linkedinVars, scoreVars,
                 detectorVars, taskVars, limiterVars, workerVars,
                 registryVars, optimizerVars>>

\* ----------------- worker_tasks.py: the writes of the worker to the table
WorkerTask == "t1"
IdleWorker == [pc |-> "idle", retries |-> 0]

\* _update_task_status: the row is created when missing, the status is
\* assigned whatever the row holds, completed_at when it is passed
update_task_status(rows, task_id, status, with_completed_at) ==
  [rows EXCEPT ![task_id] =
     [status |-> status,
      completed_at |-> IF with_completed_at THEN TRUE ELSE @.completed_at]]

\* _store_task_results: the row is created when missing and its status is
\* assigned 'completed'
store_task_results(rows, task_id) ==
  [rows EXCEPT ![task_id] = [status |-> "completed", completed_at |-> TRUE]]

InitWorkerWrites == worker = IdleWorker

\* a worker takes the task from the queue: social_lookup_task up to the
\* validation (status PROCESSING)
WorkerStarts ==
  /\ worker.pc = "queued"
  /\ task_results' =
       update_task_status(task_results, WorkerTask, "processing", FALSE)
  /\ worker' = [worker EXCEPT !.pc = "processing"]
  /\ UNCHANGED api_response
  /\ UNCHANGED <<searchVars, hierVars, callVars, generatorVars,
                 baseAgentVars, orchestratorVars, linkedinVars, scoreVars,
                 detectorVars, taskVars, limiterVars, registryVars,
                 optimizerVars>>

\* the email fails validation: status FAILED and return
WorkerRejects ==
  /\ worker.pc = "processing"
  /\ task_results' = update_task_status(task_results, WorkerTask, "failed", FALSE)
  /\ worker' = [worker EXCEPT !.pc = "done"]
  /\ UNCHANGED api_response
  /\ UNCHANGED <<searchVars, hierVars, callVars, generatorVars,
                 baseAgentVars, orchestratorVars, linkedinVars, scoreVars,
                 detectorVars, taskVars, limiterVars, registryVars,
                 optimizerVars>>

\* the lookup has returned: _store_task_results
WorkerStores ==
  /\ worker.pc = "processing"
  /\ task_results' = store_task_results(task_results, WorkerTask)
  /\ worker' = [worker EXCEPT !.pc = "stored"]
  /\ UNCHANGED api_response
  /\ UNCHANGED <<searchVars, hierVars, callVars, generatorVars,
                 baseAgentVars, orchestratorVars, linkedinVars, scoreVars,
                 detectorVars, taskVars, limiterVars, registryVars,
                 optimizerVars>>

\* status COMPLETED after the store, and return
WorkerCompletes ==
  /\ worker.pc = "stored"
  /\ task_results' =
       update_task_status(task_results, WorkerTask, "completed", TRUE)
  /\ worker' = [worker EXCEPT !.pc = "done"]
  /\ UNCHANGED api_response
  /\ UNCHANGED <<searchVars, hierVars, callVars, generatorVars,
                 baseAgentVars, orchestratorVars, linkedinVars, scoreVars,
                 detectorVars, taskVars, limiterVars, registryVars,
                 optimizerVars>>

\* the lookup raises: status FAILED, then the retry or the failed result
WorkerFails ==
  /\ worker.pc = "processing"
  /\ task_results' = update_task_status(task_results, WorkerTask, "failed", FALSE)
  /\ worker' = IF may_retry(worker.retries)
               THEN [pc |-> "queued", retries |-> worker.retries + 1]
               ELSE [worker EXCEPT !.pc = "done"]
  /\ UNCHANGED api_response
  /\ UNCHANGED <<searchVars, hierVars, callVars, generatorVars,
                 baseAgentVars, orchestratorVars, linkedinVars, scoreVars,
                 detectorVars, taskVars, limiterVars, registryVars,
                 optimizerVars>>

\* --------------------------- social_agent.py: the entries of active_searches
MaxSeconds == 1
MaxCallers == 2
Callers == 1..MaxCallers
Targets == {<<"email", "a@x.org">>, <<"email", "b@x.org">>, <<"phone", "+11">>}
EndOutcomes == {"returns", "raises"}

\* f"{email}_{int(time.time())}" and f"phone_{phone}_{int(time.time())}"
search_id_of(target, second) == <<target[1], target[2], second>>

SearchIds ==
  {search_id_of(t, sec) : t \in Targets, sec \in 0..MaxSeconds}
NoCaller == [pc |-> "idle", search_id |-> <<"", "", 0>>]

InitRegistry ==
  /\ active_searches = [i \in SearchIds |-> "absent"]
  /\ callers = [c \in Callers |-> NoCaller]
  /\ epoch_second = 0

\* process_email or process_phone up to its first await: the entry is
\* created with status IN_PROGRESS
start_search(c, target) ==
  /\ callers[c].pc = "idle"
  /\ LET search_id == search_id_of(target, epoch_second) IN
       /\ active_searches' = [active_searches EXCEPT ![search_id] = "in_progress"]
       /\ callers' = [callers EXCEPT ![c] = [pc |-> "running",
                                             search_id |-> search_id]]
  /\ UNCHANGED epoch_second
  /\ UNCHANGED <<searchVars, hierVars, callVars, generatorVars,
                 baseAgentVars, orchestratorVars, linkedinVars, scoreVars,
                 detectorVars, taskVars, limiterVars, routeVars, workerVars,
                 optimizerVars>>

\* the call ends: status COMPLETED before the return, FAILED in the except
\* branch before the exception is raised again
end_search(c, outcome) ==
  /\ callers[c].pc = "running"
  /\ active_searches' =
       [active_searches EXCEPT ![callers[c].search_id] =
          IF outcome = "returns" THEN "completed" ELSE "failed"]
  /\ callers' = [callers EXCEPT ![c].pc =
                   IF outcome = "returns" THEN "returned" ELSE "raised"]
  /\ UNCHANGED epoch_second
  /\ UNCHANGED <<searchVars, hierVars, callVars, generatorVars,
                 baseAgentVars, orchestratorVars, linkedinVars, scoreVars,
                 detectorVars, taskVars, limiterVars, routeVars, workerVars,
                 optimizerVars>>

SecondPasses ==
  /\ epoch_second < MaxSeconds
  /\ epoch_second' = epoch_second + 1
  /\ UNCHANGED <<active_searches, callers>>
  /\ UNCHANGED <<searchVars, hierVars, callVars, generatorVars,
                 baseAgentVars, orchestratorVars, linkedinVars, scoreVars,
                 detectorVars, taskVars, limiterVars, routeVars, workerVars,
                 optimizerVars>>

\* ------------------------ resource_orchestrator.py: optimize_agent_operations
NoOptimizations ==
  [concurrency_limits |-> <<>>, timeout_settings |-> <<>>,
   data_quality |-> <<>>]

optimize_agent_operations(strategy) ==
  [concurrency_limits |->
     [max_platform_agents |-> strategy.max_concurrent_tasks,
      max_proxy_checks |-> Min(5, strategy.max_concurrent_tasks),
      max_parallel_requests |-> strategy.max_concurrent_tasks * 2],
   timeout_settings |->
     [agent_timeout |-> strategy.agent_timeout,
      proxy_timeout |-> strategy.agent_timeout - 5,
      http_timeout |-> strategy.agent_timeout - 10],
   data_quality |->
     [enable_image_analysis |->
        strategy.data_quality \in {"comprehensive", "standard"},
      enable_advanced_correlation |-> strategy.data_quality = "comprehensive",
      enable_fingerprinting |-> strategy.data_quality = "comprehensive",
      max_profiles_per_platform |->
        IF strategy.data_quality = "comprehensive" THEN 50 ELSE 20]]

InitOptimizer == optimizations = NoOptimizations

\* initialize_optimized_agents asks for the settings of the startup strategy
initialize_optimized_agents ==
  /\ level # "none"
  /\ optimizations = NoOptimizations
  /\ optimizations' = optimize_agent_operations(create_strategy_for_level(level))
  /\ UNCHANGED <<searchVars, hierVars, callVars, generatorVars,
                 baseAgentVars, orchestratorVars, linkedinVars, scoreVars,
                 detectorVars, taskVars, limiterVars, routeVars, workerVars,
                 registryVars>>

\* the components added after the deduplication
InitServices ==
  /\ InitScore /\ InitDetector /\ InitTask /\ InitLimiter /\ InitRoutes
  /\ InitWorkerWrites
  /\ InitRegistry
  /\ InitOptimizer

InitComponents ==
  /\ InitGenerator /\ InitBaseAgent /\ InitOrchestrator /\ InitLinkedin
  /\ InitServices

\* the source calls are idle while process_email or the hierarchy runs
InitCallIdle ==
  /\ search_kind = "none"
  /\ phone_capable = Platforms
  /\ cpc = [p \in Platforms |-> "idle"]
  /\ attempt = [p \in Platforms |-> 0]
  /\ elapsed = [p \in Platforms |-> 0]
  /\ attempt_log = [p \in Platforms |-> <<>>]
  /\ result_of = [p \in Platforms |-> Pending]

Init == InitSearch /\ InitHier /\ InitCallIdle /\ InitComponents

Next ==
  \/ \E lv \in ResourceLevels : determine_resource_strategy(lv)
  \/ process_email
  \/ ValidateInputs
  \/ StartCategory
  \/ \E p \in Platforms, o \in SearchPlatformOutcomes : CompleteSearch(p, o)
  \/ GatherReturn
  \/ SearchReturn
  \/ ProcessEmailReturn
  \/ DeadlineElapses
  \/ orchestrate_analysis
  \/ \E d \in Decisions : AwaitAgentReturns(d)
  \/ AwaitAgentRaises
  \/ PhaseReturn

Spec == Init /\ [][Next]_vars

\* ------------------------------------------------ the source calls by themselves
InitCall ==
  /\ InitSearch
  /\ InitHier
  /\ InitCallIdle
  /\ InitComponents

NextCall ==
  \/ \E lv \in ResourceLevels : determine_resource_strategy(lv)
  \/ \E k \in {"messaging", "specialized"}, p \in Platforms :
       \/ StartPlatformSearch(k, Platforms)
       \/ StartPlatformSearch(k, Platforms \ {p})
  \/ \E p \in Platforms : AttemptReturns(p)
  \/ \E p \in Platforms : AttemptRaises(p)
  \/ \E p \in Platforms : AttemptTimesOut(p)
  \/ \E p \in Platforms : Wake(p)
  \/ Tick
  \/ PlatformSearchReturn

SpecCall == InitCall /\ [][NextCall]_vars

\* ------------------------------------------- the consensus, checked by itself
\* _aggregate_decisions applied to every dict of decisions of MaxDeciders
\* decision makers and every assignment of success rates
InitDecision ==
  /\ InitSearch
  /\ InitCallIdle
  /\ InitComponents
  /\ hpc = "decide"
  /\ phase = 5
  /\ hidx = 1
  /\ agent_outcome = [r \in Range(Roles) |-> [i \in 1..MaxAgents |-> "pending"]]
  /\ phase_results = [r \in Range(Roles) |-> [i \in 1..MaxAgents |-> "absent"]]
  /\ agent_decisions \in [1..MaxDeciders -> Decisions \cup {NoDecision}]
  /\ \E w \in [1..MaxDeciders -> {NoEntry} \cup (0..WeightDen)] :
       agent_metrics =
         [k \in MetricsKeys |->
            IF k[1] = "DECISION_MAKER" /\ k[2] \in 1..MaxDeciders
            THEN w[k[2]] ELSE NoEntry]
  /\ final_decision = NotDecided

AggregateDecisions ==
  /\ hpc = "decide"
  /\ final_decision' = aggregate_decisions(agent_decisions, agent_metrics)
  /\ hpc' = "decided"
  /\ UNCHANGED <<phase, hidx, agent_outcome, phase_results, agent_decisions,
                 agent_metrics>>
  /\ UNCHANGED <<searchVars, callVars, componentVars>>

NextDecision == AggregateDecisions

SpecDecision == InitDecision /\ [][NextDecision]_vars

\* ------------------------------------------ the agent generator by itself
InitMonitor ==
  /\ InitSearch
  /\ InitHier
  /\ InitCallIdle
  /\ InitComponents

NextMonitor ==
  \/ \E platform \in GeneratorPlatforms : generate_agent(platform)
  \/ \E k \in AgentKeys, perf \in PerformanceSamples :
       record_performance(k, perf)
  \/ monitor_agent_health
  \/ CheckAgent
  \/ StartReplacements
  \/ replace_failing_agent
  \/ MonitorReturn

SpecMonitor == InitMonitor /\ [][NextMonitor]_vars

\* one monitoring cycle over one agent with every performance record
InitHealthCheck ==
  /\ InitSearch
  /\ InitHier
  /\ InitCallIdle
  /\ \E platform \in GeneratorPlatforms, perf \in AgentPerformances,
        st \in {"healthy", "failing"} :
       active_agents =
         [k \in AgentKeys |->
            IF k = 1
            THEN [NewAgent(platform, 1) EXCEPT !.performance = perf,
                                               !.status = st]
            ELSE NoAgent]
  /\ monitor_pc = "idle"
  /\ monitor_idx = 1
  /\ agents_to_replace = <<>>
  /\ InitBaseAgent
  /\ InitOrchestrator
  /\ InitLinkedin
  /\ InitServices

NextHealthCheck ==
  \/ monitor_agent_health
  \/ CheckAgent
  \/ StartReplacements
  \/ replace_failing_agent
  \/ MonitorReturn

SpecHealthCheck == InitHealthCheck /\ [][NextHealthCheck]_vars

\* ------------------------------------------------ one agent by itself
InitAgent ==
  /\ InitSearch
  /\ InitHier
  /\ InitCallIdle
  /\ InitComponents

NextAgent ==
  \/ \E outcome \in RequestOutcomes, header \in ResetHeaders :
       make_request(outcome, header)
  \/ \E outcome \in HealthCheckOutcomes : health_check(outcome)
  \/ RateLimitExpires

SpecAgent == InitAgent /\ [][NextAgent]_vars

\* ------------------------------------- the strategy chosen at startup
InitStrategy ==
  /\ InitSearch
  /\ InitHier
  /\ InitCallIdle
  /\ InitComponents

NextStrategy ==
  \/ get_network_speed
  \/ \E outcome \in SpeedTestOutcomes, speed \in NetworkSpeeds :
       speed_test_ends(outcome, speed)
  \/ \E r \in Snapshots : assess_system_resources(r)
  \/ startup_strategy
  \/ initialize_optimized_agents

SpecStrategy == InitStrategy /\ [][NextStrategy]_vars

\* --------------------------- assessments of one orchestrator over time
InitNetwork ==
  /\ InitSearch
  /\ InitHier
  /\ InitCallIdle
  /\ InitComponents

\* the machine apart from its network: one load
NetworkSnapshots ==
  {r \in Snapshots : /\ r.memory_usage = 33
                     /\ r.cpu_usage = 33
                     /\ r.battery_level = 100}

NextNetwork ==
  \/ get_network_speed
  \/ \E outcome \in SpeedTestOutcomes, speed \in NetworkSpeeds :
       speed_test_ends(outcome, speed)
  \/ \E r \in NetworkSnapshots : assess_system_resources(r)
  \/ MinutePasses

SpecNetwork == InitNetwork /\ [][NextNetwork]_vars

\* ------------------------------- the deduplication of collected profiles
InitDedup ==
  /\ InitSearch
  /\ InitHier
  /\ InitCallIdle
  /\ InitGenerator
  /\ InitBaseAgent
  /\ InitOrchestrator
  /\ profiles \in ProfileLists
  /\ unique_profiles = NotRun
  /\ InitServices

NextDedup == search_by_email

SpecDedup == InitDedup /\ [][NextDedup]_vars

\* ------------------------------------------ the confidence of a profile
InitConfidence ==
  /\ InitSearch
  /\ InitHier
  /\ InitCallIdle
  /\ InitGenerator /\ InitBaseAgent /\ InitOrchestrator /\ InitLinkedin
  /\ profile_data \in ProfileDicts
  /\ confidence_score = NoScore
  /\ InitDetector
  /\ InitTask
  /\ InitLimiter
  /\ InitRoutes
  /\ InitWorkerWrites
  /\ InitRegistry
  /\ InitOptimizer

NextConfidence == score_profile

SpecConfidence == InitConfidence /\ [][NextConfidence]_vars

\* -------------------------------------- one analysis of an identity
InitAnalysis ==
  /\ InitSearch
  /\ InitHier
  /\ InitCallIdle
  /\ InitGenerator /\ InitBaseAgent /\ InitOrchestrator /\ InitLinkedin
  /\ InitScore
  /\ identity \in Identities
  /\ deception_analysis = NoAnalysis
  /\ InitTask
  /\ InitLimiter
  /\ InitRoutes
  /\ InitWorkerWrites
  /\ InitRegistry
  /\ InitOptimizer

NextAnalysis == analyze_digital_identity

SpecAnalysis == InitAnalysis /\ [][NextAnalysis]_vars

\* ------------------------- one submitted lookup task and the phone lookups
InitWorker ==
  /\ InitSearch
  /\ InitHier
  /\ InitCallIdle
  /\ InitGenerator /\ InitBaseAgent /\ InitOrchestrator /\ InitLinkedin
  /\ InitScore /\ InitDetector
  /\ lookup_task \in {SubmittedTask(a) : a \in BOOLEAN}
  /\ phone_search = NoPhoneSearch
  /\ InitLimiter
  /\ InitRoutes
  /\ InitWorkerWrites
  /\ InitRegistry
  /\ InitOptimizer

NextWorker ==
  \/ \E v \in ValidationOutcomes, l \in LookupOutcomes : social_lookup_task(v, l)
  \/ CountdownPasses
  \/ \E phone \in Phones, o \in PhoneSearchOutcomes : process_phone(phone, o)

SpecWorker == InitWorker /\ [][NextWorker]_vars

\* ------------------- the rate limiter under requests of one user and time
InitRateLimit ==
  /\ InitSearch
  /\ InitHier
  /\ InitCallIdle
  /\ InitGenerator /\ InitBaseAgent /\ InitOrchestrator /\ InitLinkedin
  /\ InitScore /\ InitDetector /\ InitTask
  /\ requests = [i \in Identifiers |-> NoTimes]
  /\ now = 0
  /\ other_identifiers \in {0, CleanupSize - 1}
  /\ admitted = [i \in Identifiers |-> <<>>]
  /\ response = [identifier |-> "", status |-> 0, checks |-> 0]
  /\ InitRoutes
  /\ InitWorkerWrites
  /\ InitRegistry
  /\ InitOptimizer

NextRateLimit ==
  \/ \E i \in Identifiers : check_rate_limit(i, limit_of(i), window_of(i))
  \/ TimePasses

SpecRateLimit == InitRateLimit /\ [][NextRateLimit]_vars

\* ------------------------------ the task routes over rows of every status
InitTaskRoutes ==
  /\ InitSearch
  /\ InitHier
  /\ InitCallIdle
  /\ InitGenerator /\ InitBaseAgent /\ InitOrchestrator /\ InitLinkedin
  /\ InitScore /\ InitDetector /\ InitTask /\ InitLimiter
  /\ task_results \in [TaskIds -> TaskRows]
  /\ \A t \in TaskIds :
       task_results[t].completed_at
         <=> task_results[t].status \in {"completed", "cancelled"}
  /\ api_response = NoResponse
  /\ InitWorkerWrites
  /\ InitRegistry
  /\ InitOptimizer

NextTaskRoutes ==
  \/ \E t \in TaskIds : cancel_task(t)
  \/ \E t \in TaskIds, c \in ConversionOutcomes : get_task_results(t, c)

SpecTaskRoutes == InitTaskRoutes /\ [][NextTaskRoutes]_vars

\* ------------- a submitted task, its worker, and the routes called meanwhile
InitCancel ==
  /\ InitSearch
  /\ InitHier
  /\ InitCallIdle
  /\ InitGenerator /\ InitBaseAgent /\ InitOrchestrator /\ InitLinkedin
  /\ InitScore /\ InitDetector /\ InitTask /\ InitLimiter
  /\ task_results \in
       {[t \in TaskIds |-> IF t = WorkerTask
                           THEN [status |-> "pending", completed_at |-> FALSE]
                           ELSE other] :
          other \in {NoRow, [status |-> "pending", completed_at |-> FALSE]}}
  /\ api_response = NoResponse
  /\ worker = [pc |-> "queued", retries |-> 0]
  /\ InitRegistry
  /\ InitOptimizer

NextCancel ==
  \/ WorkerStarts
  \/ WorkerRejects
  \/ WorkerStores
  \/ WorkerCompletes
  \/ WorkerFails
  \/ \E t \in TaskIds : cancel_task(t)
  \/ \E t \in TaskIds, c \in ConversionOutcomes : get_task_results(t, c)

SpecCancel == InitCancel /\ [][NextCancel]_vars

\* ------------------------------ concurrent searches and active_searches
InitSearches == Init

NextSearches ==
  \/ \E c \in Callers, target \in Targets : start_search(c, target)
  \/ \E c \in Callers, o \in EndOutcomes : end_search(c, o)
  \/ SecondPasses

SpecSearches == InitSearches /\ [][NextSearches]_vars

\* ===================================================================== claims

\* C1: during a multi-category search the number of source calls in flight
\* never exceeds max_concurrent_tasks of the current strategy.
C1_BoundedConcurrency ==
  level # "none" =>
    Cardinality(InFlight) <= create_strategy_for_level(level).max_concurrent_tasks

\* C2: the categories are processed in the order PROFESSIONAL, CODE,
\* SOCIAL_MEDIA, MESSAGING, EMERGING, SPECIALIZED: once a source call of a
\* category has started, every source call of every earlier category has
\* ended and none of them is left to start.
ClaimedOrder ==
  <<"PROFESSIONAL", "CODE", "SOCIAL_MEDIA", "MESSAGING", "EMERGING",
    "SPECIALIZED">>
RankTable ==
  [c \in Categories |-> CHOOSE i \in DOMAIN ClaimedOrder : ClaimedOrder[i] = c]
RankOf(c) == RankTable[c]
C2_CategoryOrder ==
  \A q \in Platforms :
    task[q] # "idle" =>
      \A p \in Platforms :
        RankOf(CategoryOf(p)) < RankOf(CategoryOf(q)) =>
          /\ task[p] # "running"
          /\ Eligible(p) => task[p] \in SearchPlatformOutcomes
C2_Witness ==
  /\ \E q \in Platforms : CategoryOf(q) = "SPECIALIZED" /\ task[q] = "running"
  /\ \A c \in Categories \ {"SPECIALIZED"} :
       \E p \in Platforms : CategoryOf(p) = c /\ task[p] \in SearchPlatformOutcomes

\* C3: the keys of the returned result map are platforms for which a source
\* call was dispatched in the query.
C3_KeysDispatched ==
  {p \in Platforms : platform_results[p] # Absent} \subseteq dispatched

\* C4: a source call that raises does not abort the search, and the lists
\* returned by the other calls of its category and of later categories are in
\* the returned map (under the platform's own key when no platform of the
\* category was skipped); in a phase of the hierarchy an agent that raises is
\* omitted (an error entry in Collection) and every agent that returned has
\* its result in the phase's dict, the later agents being run all the same.
StoredLists == {platform_results[k] : k \in Platforms} \ {Absent}
C4_SearchIsolated ==
  /\ search_error # "SourceError"
  /\ \A p \in Platforms :
       (task[p] = "ok" /\ p \notin Range(category_tasks)) =>
         /\ p \in StoredLists
         /\ (\A q \in Range(CategoryPlatforms(CategoryOf(p))) : Eligible(q))
              => platform_results[p] = p
C4_PhaseIsolated ==
  /\ \A r \in Range(Roles) : \A i \in 1..MaxAgents :
       /\ agent_outcome[r][i] = "returned" => phase_results[r][i] = "result"
       /\ agent_outcome[r][i] = "raised" =>
            phase_results[r][i] = (IF r = "COLLECTOR" THEN "error" ELSE "absent")
  /\ hpc = "done" =>
       \A r \in Range(Roles) : \A i \in 1..MaxAgents :
         agent_outcome[r][i] # "pending"
C4_FailureIsolated == C4_SearchIsolated /\ C4_PhaseIsolated
C4_Witness ==
  /\ pc = "done"
  /\ \E p, q, l \in Platforms :
       /\ task[p] = "exc"
       /\ q # p /\ CategoryOf(q) = CategoryOf(p) /\ platform_results[q] = q
       /\ RankOf(CategoryOf(l)) > RankOf(CategoryOf(p))
       /\ platform_results[l] = l
C4_WitnessPhase ==
  /\ hpc = "done"
  /\ \E r \in Range(Roles) :
       agent_outcome[r][1] = "raised" /\ phase_results[r][2] = "result"

\* C5: once the outer deadline of the query has passed, the in-flight work
\* is cancelled and the result is returned: no further source call starts.
C5_OuterDeadline ==
  [][deadline_exceeded => dispatched' = dispatched]_vars

\* C9: the consensus returns the decision of the group of equal decisions
\* with the greatest total weight, the group of the earliest-registered
\* agent among the groups that tie.
DecisionWeight(wds, v) ==
  SumWeights(SelectSeq2(wds, {wd \in Range(wds) : wd.decision.val = v}))
FirstAgentOf(wds, v) ==
  CHOOSE i \in 1..MaxDeciders :
    /\ \E wd \in Range(wds) : wd.agent_id = i /\ wd.decision.val = v
    /\ \A wd \in Range(wds) : wd.decision.val = v => wd.agent_id >= i
ExpectedWinner(wds) ==
  LET vals == {wd.decision.val : wd \in Range(wds)}
      tied == {v \in vals :
                 \A u \in vals : DecisionWeight(wds, u) <= DecisionWeight(wds, v)}
  IN CHOOSE v \in tied :
       \A u \in tied : FirstAgentOf(wds, v) <= FirstAgentOf(wds, u)
C9_Consensus ==
  LET wds == WeightedDecisions(agent_decisions, agent_metrics, 1) IN
    (hpc = "decided" /\ wds # <<>>) =>
      final_decision.primary_decision.val = ExpectedWinner(wds)

C6_AttemptWithinAgentTimeout ==
  \A p \in Platforms :
    (search_kind # "none" /\ cpc[p] = "attempt") =>
      elapsed[p] <= create_strategy_for_level(level).agent_timeout

\* C7: a source call makes at most MAX_RETRIES attempts, every attempt but
\* the last one made has failed, the call returns the list of the attempt
\* that succeeded and makes no attempt after it, and it returns an empty
\* list, without raising, once MAX_RETRIES attempts have failed; the call
\* terminates: each of its steps strictly lowers a measure that is bounded
\* by 2 * MAX_RETRIES + 1 and is 0 exactly when the call has returned.
AttemptsStarted(p) ==
  IF cpc[p] = "idle" THEN 0
  ELSE Len(attempt_log[p]) + (IF cpc[p] = "attempt" THEN 1 ELSE 0)
StepsLeft(c, a) ==
  CASE c = "idle"    -> 2 * MAX_RETRIES + 1
    [] c = "attempt" -> 2 * (MAX_RETRIES - a)
    [] c = "sleep"   -> 2 * (MAX_RETRIES - a) - 1
    [] c = "done"    -> 0
C7_AttemptsBounded ==
  \A p \in Platforms :
    /\ AttemptsStarted(p) <= MAX_RETRIES
    /\ cpc[p] \in {"idle", "attempt", "sleep", "done"}
    /\ \A i \in 1..(AttemptsStarted(p) - 1) :
         attempt_log[p][i] \in {"error", "timeout"}
    /\ cpc[p] = "sleep" =>
         attempt_log[p][Len(attempt_log[p])] \in {"error", "timeout"}
    /\ cpc[p] = "done" =>
         \/ /\ attempt_log[p][Len(attempt_log[p])] = "ok"
            /\ result_of[p] = Len(attempt_log[p]) - 1
         \/ /\ Len(attempt_log[p]) = MAX_RETRIES
            /\ \A i \in 1..MAX_RETRIES :
                 attempt_log[p][i] \in {"error", "timeout"}
            /\ result_of[p] = EmptyList
    /\ cpc[p] # "done" => result_of[p] = Pending
C7_StepsDecrease ==
  \A p \in Platforms :
    /\ StepsLeft(cpc[p], attempt[p]) >= 0
    /\ IF <<cpc[p], attempt[p], attempt_log[p]>>' =
            <<cpc[p], attempt[p], attempt_log[p]>>
       THEN TRUE
       ELSE StepsLeft(cpc'[p], attempt'[p]) < StepsLeft(cpc[p], attempt[p])
C7_RetryCeiling == []C7_AttemptsBounded /\ [][C7_StepsDecrease]_vars
C7_Witness ==
  \E p, q \in Platforms :
    /\ cpc[p] = "done" /\ result_of[p] = EmptyList
    /\ attempt_log[p] = <<"error", "timeout", "timeout">>
    /\ cpc[q] = "done" /\ result_of[q] = 1
    /\ attempt_log[q] = <<"timeout", "ok">>

NoRecentSuccess(perf) ==
  perf.last_success = NoSuccess \/ perf.last_success > SuccessWindow
C11_FailingExactlyWhen ==
  monitor_pc = "replace" =>
    \A k \in Range(ActiveKeys) :
      LET perf == active_agents[k].performance IN
        /\ active_agents[k].status \in {"healthy", "failing"}
        /\ active_agents[k].status = "failing" <=>
             \/ perf.success_rate < 7
             \/ perf.avg_response_time > 30
             \/ perf.error_rate > 3
             \/ (perf.total_requests > 0 /\ NoRecentSuccess(perf))

\* C12: when a monitoring cycle has completed, the entry of every agent
\* judged Failing in it is a newly generated agent of the same platform,
\* HEALTHY, with reset metrics.
C12_FailingReplaced ==
  (monitor_pc = "idle" /\ agents_to_replace # <<>>) =>
    \A k \in Range(agents_to_replace) :
      /\ active_agents[k].status = "healthy"
      /\ active_agents[k].performance = InitialPerformance
      /\ active_agents[k].instance # k

\* C13: when the replacement of a Failing agent did not succeed, the cycle
\* ends all the same and the agent that was not replaced is OFFLINE.
C13_FailedReplacementOffline ==
  (monitor_pc = "idle" /\ agents_to_replace # <<>>) =>
    \A k \in Range(agents_to_replace) :
      active_agents[k].instance = k => active_agents[k].status = "offline"

\* C14: the health state of one and the same source never goes from
\* Degraded, Failing or Offline back to Healthy; only a replacement, a new
\* instance, starts again at Healthy.
C14_AgentForward ==
  agent_status \in {"degraded", "failing", "offline"} =>
    agent_status' # "healthy"
C14_GeneratedForward ==
  \A k \in AgentKeys :
    (/\ active_agents[k].status \in {"degraded", "failing", "offline"}
     /\ active_agents'[k].instance = active_agents[k].instance) =>
      active_agents'[k].status # "healthy"
C14_HealthForward == [][C14_AgentForward /\ C14_GeneratedForward]_vars
C14_GeneratedStaysFailing == [][C14_GeneratedForward]_vars

\* C15: after any sequence of invocations of _make_request,
\* total_requests = successful_requests + failed_requests.
C15_CountersAddUp ==
  base_metrics.total_requests =
    base_metrics.successful_requests + base_metrics.failed_requests

\* ten times the score of the snapshot in exact arithmetic:
\* 0.3*memory + 0.3*cpu + 0.3*network + 0.1*battery
ExactScoreTenths(r) ==
  3 * memory_score(r) + 3 * cpu_score(r) + 3 * network_score(r)
    + battery_score(r)

ClaimedLevel(r) ==
  IF ExactScoreTenths(r) >= 800 THEN "excellent"
  ELSE IF ExactScoreTenths(r) >= 600 THEN "high"
  ELSE IF ExactScoreTenths(r) >= 400 THEN "medium"
  ELSE IF ExactScoreTenths(r) >= 200 THEN "low"
  ELSE "critical"

ClaimedStrategy ==
  [critical  |-> <<1, 10, "basic">>,
   low       |-> <<2, 15, "basic">>,
   medium    |-> <<4, 20, "standard">>,
   high      |-> <<6, 25, "comprehensive">>,
   excellent |-> <<8, 30, "comprehensive">>]

StrategyTuple(lv) ==
  <<create_strategy_for_level(lv).max_concurrent_tasks,
    create_strategy_for_level(lv).agent_timeout,
    create_strategy_for_level(lv).data_quality>>

\* C16: the strategy determined for a snapshot is the one of the tier of its
\* score 0.3*max(0,100-memory_usage) + 0.3*max(0,100-cpu_usage)
\* + 0.3*min(100, 2*network_speed) + 0.1*battery_level (critical below 20,
\* low below 40, medium below 60, high below 80, excellent from 80), and the
\* returned (max_concurrent_tasks, agent_timeout, data_quality) is the triple
\* listed for that tier.
C16_TierOfScore ==
  (resources # NoResources /\ level # "none") =>
    /\ level = ClaimedLevel(resources)
    /\ StrategyTuple(level) = ClaimedStrategy[level]

\* the triples alone: every tier returns the listed triple
C16_TripleOfTier ==
  (resources # NoResources /\ level # "none") =>
    StrategyTuple(level) = ClaimedStrategy[level]

\* the tiers from the poorest to the richest
LevelRank ==
  [critical |-> 0, low |-> 1, medium |-> 2, high |-> 3, excellent |-> 4]

SubScores(r) ==
  <<memory_score(r), cpu_score(r), network_score(r), battery_score(r)>>

\* the snapshots that differ from r in one field, over every whole percent
\* and every half Mbit/s up to the 50 Mbit/s where the network score is capped
Percents == 0..100
Variants(r) ==
  {[r EXCEPT !.memory_usage = v] : v \in Percents}
    \cup {[r EXCEPT !.cpu_usage = v] : v \in Percents}
    \cup {[r EXCEPT !.network_speed = v] : v \in Percents}
    \cup {[r EXCEPT !.battery_level = v] : v \in Percents}

\* r2 differs from r in exactly one sub-score, which is higher in r2
HigherInOne(r, r2) ==
  \E i \in 1..4 :
    /\ SubScores(r2)[i] > SubScores(r)[i]
    /\ \A j \in (1..4) \ {i} : SubScores(r2)[j] = SubScores(r)[j]

\* C17: determine_resource_strategy is monotone: a snapshot that differs from
\* the assessed one in exactly one sub-score, that one being higher, never
\* gets a lower tier, nor a smaller max_concurrent_tasks or agent_timeout.
C17_Monotone ==
  (resources # NoResources /\ level # "none") =>
    \A r2 \in Variants(resources) :
      HigherInOne(resources, r2) =>
        /\ LevelRank[resource_level(r2)] >= LevelRank[level]
        /\ create_strategy_for_level(resource_level(r2)).max_concurrent_tasks
             >= create_strategy_for_level(level).max_concurrent_tasks
        /\ create_strategy_for_level(resource_level(r2)).agent_timeout
             >= create_strategy_for_level(level).agent_timeout

\* a strategy has been determined and one higher sub-score lifts the tier
C17_Witness ==
  /\ resources # NoResources
  /\ level # "none"
  /\ \E r2 \in Variants(resources) :
       /\ HigherInOne(resources, r2)
       /\ LevelRank[resource_level(r2)] > LevelRank[level]

\* C18: a read of the network speed while the cached measurement is stale
\* (5 minutes old or more) returns the cached value without waiting for a new
\* speed test: no call waits on a speed test while a stale measurement is
\* cached.
C18_StaleReadDoesNotBlock ==
  (network_speed_cache # NoSpeed /\ last_network_test >= CacheMinutes) =>
    speed_pc # "testing"

\* C19: the speed test runs at most once per 5-minute period: a call waits on
\* a speed test only when no test ended in the last 5 minutes, whether that
\* test measured a speed, measured 0 or failed.
C19_OneTestPerPeriod ==
  speed_pc = "testing" =>
    (last_attempt = NoTest \/ last_attempt >= CacheMinutes)

\* names that differ only in the case of their letters
CaseClasses == {{"Bob", "BOB", "bob"}, {"Ann"}}
SameIgnoringCase(a, b) ==
  a = b \/ \E class \in CaseClasses : a \in class /\ b \in class

Kept == Range(unique_profiles)
KeptWithUrl(u) == {k \in Kept : profiles[k].profile_url = u}
FirstWithUrl(u) ==
  CHOOSE i \in 1..Len(profiles) :
    /\ profiles[i].profile_url = u
    /\ \A j \in 1..(i - 1) : profiles[j].profile_url # u
InputUrls == {profiles[i].profile_url : i \in 1..Len(profiles)} \ {""}

ProfilesAt(plist, positions) ==
  [k \in 1..Len(positions) |-> plist[positions[k]]]

dedup(plist) == ProfilesAt(plist, deduplicate_profiles(plist))

\* C21: deduplication is idempotent: appending to the collected list a profile
\* it already holds does not change the result, and deduplicating the result
\* again returns it unchanged.
C21_Idempotent ==
  unique_profiles # NotRun =>
    /\ \A i \in 1..Len(profiles) :
         dedup(Append(profiles, profiles[i]))
           = ProfilesAt(profiles, unique_profiles)
    /\ dedup(ProfilesAt(profiles, unique_profiles))
         = ProfilesAt(profiles, unique_profiles)

\* a list with a repeated profile has been deduplicated and lost an entry
C21_Witness ==
  /\ unique_profiles # NotRun
  /\ Len(profiles) >= 2
  /\ profiles[1] = profiles[2]
  /\ Len(unique_profiles) = Len(profiles) - 1

\* C22: every confidence _calculate_confidence_score returns lies in [0,1],
\* for every combination of present and absent fields and every last_activity,
\* later than now and older than 365 days included, and the recency factor
\* itself lies in [0,1].
C22_ConfidenceInUnitInterval ==
  confidence_score # NoScore =>
    /\ 0 <= confidence_score[1]
    /\ confidence_score[1] <= confidence_score[2]
    /\ profile_data.last_activity.present =>
         /\ 0 <= recency_score(profile_data.last_activity.days_ago)
         /\ recency_score(profile_data.last_activity.days_ago) <= 365

\* the score alone, the recency factor left aside
C22_ScoreInUnitInterval ==
  confidence_score # NoScore =>
    /\ 0 <= confidence_score[1]
    /\ confidence_score[1] <= confidence_score[2]


\* ---------------------------------------------------------------- C23
Analysed == deception_analysis # NoAnalysis
IndicatorsOf(result) == {result.indicators[k] : k \in 1..Len(result.indicators)}
ReturnedIndicators ==
  {deception_analysis.deception_indicators[k] :
     k \in 1..Len(deception_analysis.deception_indicators)}
FailedDetectors ==
  {k \in 1..Len(detection_tasks(identity)) : detection_tasks(identity)[k].raised}

\* C23: when a detector fails, analyze_digital_identity still returns an
\* analysis, and the analysis holds the indicators of every detector that
\* did not fail.
C23_FailureIsolated ==
  (Analysed /\ FailedDetectors # {}) =>
    /\ deception_analysis.status = "returned"
    /\ \A k \in 1..Len(detection_tasks(identity)) \ FailedDetectors :
         IndicatorsOf(detection_tasks(identity)[k]) \subseteq ReturnedIndicators

\* C23, the case of the absent digital footprint alone
C23_AbsentFootprintIsolated ==
  (Analysed /\ ~identity.digital_footprint.present
            /\ identity.behavioral_analysis) =>
    /\ deception_analysis.status = "returned"
    /\ IndicatorsOf(detect_shared_accounts(identity)) \subseteq ReturnedIndicators
    /\ IndicatorsOf(detect_identity_fragmentation(identity))
         \subseteq ReturnedIndicators

\* ---------------------------------------------------------------- C24
FloatOne == FloatOfNat(1)

\* C24: every indicator of a returned analysis has a non-empty evidence
\* list and a confidence between 0 and 1.
C24_IndicatorsWellFormed ==
  \A ind \in ReturnedIndicators :
    /\ ind.evidence # <<>>
    /\ FloatGe(ind.confidence, FloatZero)
    /\ FloatGe(FloatOne, ind.confidence)

\* an analysis in which all three detectors emitted, the shared account
\* one with all four signals
C24_Witness ==
  /\ deception_analysis.status = "returned"
  /\ Len(deception_analysis.deception_indicators) = 3
  /\ \E ind \in ReturnedIndicators :
       ind.type = "shared_account" /\ Len(ind.evidence) = 4

\* ---------------------------------------------------------------- C25
Tenths(signal, weight) == IF signal THEN weight ELSE 0
SharedAccountTenths ==
  Tenths(identity.suspicious_patterns, 3)
    + Tenths(identity.multiple_behavioral_profiles, 4)
    + Tenths(identity.style_variations, 3)
    + Tenths(identity.geographic_spread, 2)
TimezoneTenths ==
  Tenths(timezone_mismatch(identity.digital_footprint), 6)
    + Tenths(night_activity(identity), 4)
    + Tenths(~timezones_consistent(identity.digital_footprint), 3)
    + Tenths(dst_anomalies(identity), 2)
FragmentationTenths ==
  Tenths(identity.excessive_variations, 4)
    + Tenths(identity.incomplete_pattern, 3)
    + Tenths(identity.compartmentalized_identity, 3)
EmittedOf(type) ==
  Cardinality({k \in 1..Len(deception_analysis.deception_indicators) :
                 deception_analysis.deception_indicators[k].type = type})

\* C25: in a returned analysis each detector has emitted one indicator when
\* the sum of the weights of its signals is above its threshold (0.5, 0.5,
\* 0.4), and none otherwise.
C25_EmittedIffAboveThreshold ==
  deception_analysis.status = "returned" =>
    /\ EmittedOf("shared_account") = (IF SharedAccountTenths > 5 THEN 1 ELSE 0)
    /\ EmittedOf("timezone_manipulation") = (IF TimezoneTenths > 5 THEN 1 ELSE 0)
    /\ EmittedOf("identity_fragmentation")
         = (IF FragmentationTenths > 4 THEN 1 ELSE 0)

\* an analysis returned for signals that sum to a threshold exactly, with
\* another detector above its threshold
C25_Witness ==
  /\ deception_analysis.status = "returned"
  /\ SharedAccountTenths = 5
  /\ FragmentationTenths = 4
  /\ TimezoneTenths > 5
  /\ EmittedOf("timezone_manipulation") = 1

\* ---------------------------------------------------------------- C26
\* C26: when the username analysis flags the usernames, the returned
\* analysis holds a SharedAccount indicator with evidence, whatever the
\* other signals are.
C26_UsernamesAloneEmit ==
  (deception_analysis.status = "returned" /\ identity.suspicious_patterns) =>
    \E ind \in ReturnedIndicators :
      ind.type = "shared_account" /\ ind.evidence # <<>>


\* ---------------------------------------------------------------- C27
PhoneCallStep == phone_search' # phone_search
ExecutionStep == lookup_task'.executions = lookup_task.executions + 1

\* C27: a call of process_phone with a phone that fails the format check
\* raises ValidationError and dispatches no source call, and an execution of
\* social_lookup_task whose email fails validation leaves the status failed,
\* returns the error result, starts no lookup and schedules no retry.
C27_MalformedRejected ==
  [][/\ (PhoneCallStep /\ ~validate_phone_format(phone_search'.phone)) =>
          /\ phone_search'.raised = "ValidationError"
          /\ phone_search'.source_calls = 0
          /\ phone_search'.status = "failed"
     /\ (ExecutionStep /\ lookup_task'.is_valid = "invalid") =>
          /\ lookup_task'.status = "failed"
          /\ lookup_task'.returned = "error"
          /\ lookup_task'.lookups = lookup_task.lookups
          /\ lookup_task'.retries = lookup_task.retries
          /\ ~lookup_task'.scheduled]_vars

\* a phone with a leading zero was refused, and an execution that followed a
\* retry found the email invalid
C27_Witness ==
  /\ phone_search.raised = "ValidationError"
  /\ phone_search.phone = <<"+", "0", "1">>
  /\ lookup_task.is_valid = "invalid"
  /\ lookup_task.retries = 1
  /\ lookup_task.returned = "error"

\* ---------------------------------------------------------------- C29
\* C29: a submission is executed at most max_retries + 1 times; an execution
\* that fails after n < max_retries retries is rescheduled with a countdown of
\* 60 * 2^n seconds, one that fails after max_retries retries returns the
\* failed result and is not rescheduled, and one that completes is not
\* rescheduled.
C29_RetrySchedule ==
  [][ExecutionStep =>
       /\ lookup_task'.executions <= 3 + 1
       /\ lookup_task'.scheduled =>
            /\ lookup_task.retries \in {0, 1, 2}
            /\ lookup_task'.retries = lookup_task.retries + 1
            /\ lookup_task'.countdown
                 = (CASE lookup_task.retries = 0 -> 60
                      [] lookup_task.retries = 1 -> 120
                      [] lookup_task.retries = 2 -> 240)
            /\ lookup_task'.status = "failed"
       /\ (lookup_task'.is_valid = "valid" /\ lookup_task'.status = "failed") =>
            /\ lookup_task.retries < 3 => lookup_task'.scheduled
            /\ lookup_task.retries = 3 =>
                 ~lookup_task'.scheduled /\ lookup_task'.returned = "failed"
       /\ lookup_task'.status = "completed" => ~lookup_task'.scheduled]_vars

\* the fourth execution has failed after countdowns of 60, 120 and 240 s
C29_Witness ==
  /\ lookup_task.executions = 4
  /\ lookup_task.retries = 3
  /\ lookup_task.returned = "failed"
  /\ ~lookup_task.scheduled


\* ---------------------------------------------------------------- C28
\* the requests of an identifier admitted in the window that ends with its
\* k-th admitted request
AdmittedInWindow(i, k) ==
  {j \in 1..k : admitted[i][j] > admitted[i][k] - window_of(i)}

\* C28: of the requests ever admitted for an identifier, no more than its
\* limit lie in one window, whatever requests and clean-ups came before.
C28_AtMostLimitPerWindow ==
  \A i \in Identifiers : \A k \in 1..Len(admitted[i]) :
    Cardinality(AdmittedInWindow(i, k)) <= limit_of(i)

\* C28, by response: a request that finds `limit` admitted requests of its
\* identifier in the last `window` seconds is answered 429 and not recorded.
C28_FullWindowRejects ==
  [][\A i \in Identifiers :
       (/\ response'.checks = response.checks + 1
        /\ response'.identifier = i
        /\ Cardinality({j \in 1..Len(admitted[i]) :
                          admitted[i][j] > now - window_of(i)}) >= limit_of(i))
         => response'.status = 429 /\ admitted' = admitted]_vars

\* C28 for the hourly lookup limit alone
C28_LookupLimitHolds ==
  \A k \in 1..Len(admitted["lookup_u1"]) :
    Cardinality(AdmittedInWindow("lookup_u1", k)) <= limit_of("lookup_u1")


\* ---------------------------------------------------------------- C30
RouteStep(route, t) ==
  /\ api_response'.calls = api_response.calls + 1
  /\ api_response'.route = route
  /\ api_response'.task_id = t

\* C30: cancel_task sets the status to cancelled when the row is pending or
\* processing; for a completed or failed task and for a missing one it
\* answers with an error and leaves the table as it is; get_task_results
\* answers with results only for a row whose status is completed, and never
\* changes the table.
C30_CancelAndResults ==
  [][\A t \in TaskIds :
       /\ RouteStep("cancel_task", t) =>
            /\ task_results[t].status \in {"pending", "processing"} =>
                 /\ task_results'[t].status = "cancelled"
                 /\ api_response'.status_code = 200
            /\ task_results[t].status \in {"completed", "failed", "absent"} =>
                 /\ task_results' = task_results
                 /\ api_response'.status_code >= 400
            /\ task_results'[t].status # task_results[t].status =>
                 task_results[t].status \in {"pending", "processing"}
            /\ \A u \in TaskIds \ {t} : task_results'[u] = task_results[u]
       /\ RouteStep("get_task_results", t) =>
            /\ api_response'.body = "results" =>
                 task_results[t].status = "completed"
            /\ task_results' = task_results]_vars

\* one task was cancelled while processing after the cancellation of a
\* completed one was refused
C30_Witness ==
  /\ api_response.calls = 2
  /\ api_response.route = "cancel_task"
  /\ api_response.status_code = 200
  /\ task_results["t1"] = [status |-> "cancelled", completed_at |-> TRUE]
  /\ task_results["t2"].status = "completed"


\* ---------------------------------------------------------------- C31
MakeRequestStep ==
  base_metrics'.total_requests = base_metrics.total_requests + 1

\* C31: a call of _make_request made while rate_limit_reset lies in the
\* future returns failure and sends nothing; a call made when it is not set
\* or has passed sends a request.
C31_LimitedSendsNothing ==
  [][MakeRequestStep =>
       /\ rate_limit_reset = "future" =>
            /\ requests_sent' = requests_sent
            /\ request_returned' = "failure"
            /\ rate_limit_reset' = rate_limit_reset
       /\ rate_limit_reset # "future" =>
            requests_sent' = requests_sent + 1]_vars

\* a 429 limited the agent, one call was refused unsent, and after the reset
\* time the next call was sent and succeeded
C31_Witness ==
  /\ base_metrics.total_requests = 3
  /\ requests_sent = 2
  /\ base_metrics.successful_requests = 1
  /\ request_returned = "success"
  /\ rate_limit_reset = "past"
  /\ agent_status = "rate_limited"


\* ---------------------------------------------------------------- C32
\* C32: the list stored under a platform in the result map is the one that
\* the call to that platform's own agent returned, also when an earlier
\* platform of its category was skipped.
C32_OwnList ==
  \A p \in Platforms :
    platform_results[p] # Absent => platform_results[p] = p


\* ---------------------------------------------------------------- C33
ActiveIds == {k \in AgentKeys : active_agents[k] # NoAgent}

ReturnedDecisions ==
  {agent_decisions[i] : i \in DOMAIN agent_decisions} \ {NoDecision}

\* C34: when a decision agent returned a decision, primary_decision is one
\* of the returned decisions, whatever the weights; it is None only when no
\* agent returned one.
C34_PrimaryIsReturned ==
  hpc = "decided" =>
    /\ ReturnedDecisions # {} =>
         final_decision.primary_decision \in ReturnedDecisions
    /\ final_decision.primary_decision = PyNone => ReturnedDecisions = {}

\* C34 for weights that are not all 0
C34_PrimaryIsReturnedWithWeight ==
  (/\ hpc = "decided"
   /\ SumWeights(WeightedDecisions(agent_decisions, agent_metrics, 1)) > 0) =>
    final_decision.primary_decision \in ReturnedDecisions


\* ---------------------------------------------------------------- C35
\* C35: an invocation of an agent through _execute_agent_with_oversight
\* leaves a metrics entry under that agent's own id and changes no entry
\* of another key.
C35_OwnEntryUpdated ==
  [][\A r \in Range(Roles), i \in 1..MaxAgents :
       (agent_outcome[r][i] = "pending" /\ agent_outcome'[r][i] # "pending") =>
         /\ agent_metrics'[<<r, i>>] # NoEntry
         /\ \A k \in MetricsKeys \ {<<r, i>>} :
              agent_metrics'[k] = agent_metrics[k]]_vars

\* C35, as _aggregate_decisions sees it: a decision maker that has been
\* invoked has an entry of its own to take its weight from
C35_InvokedDeciderHasEntry ==
  \A i \in 1..MaxAgents :
    agent_outcome["DECISION_MAKER"][i] # "pending" =>
      agent_metrics[<<"DECISION_MAKER", i>>] # NoEntry


\* ---------------------------------------------------------------- C36
\* C36: a row whose status is cancelled keeps that status in every later
\* step, whatever the worker of the task does.
C36_CancelledStays ==
  [][\A t \in TaskIds :
       task_results[t].status = "cancelled" =>
         task_results'[t].status = "cancelled"]_vars

\* C36 for a task cancelled before a worker took it
C36_CancelledWhilePendingStays ==
  [][\A t \in TaskIds :
       (task_results[t].status = "cancelled" /\ worker.pc = "queued"
        /\ worker.retries = 0) =>
         task_results'[t].status = "cancelled"]_vars


\* ---------------------------------------------------------------- C37
StatusOfCaller(c) ==
  CASE callers[c].pc = "running"  -> "in_progress"
    [] callers[c].pc = "returned" -> "completed"
    [] callers[c].pc = "raised"   -> "failed"

\* C37: every search that was started has an entry of its own, and the
\* status of the entry is IN_PROGRESS while the search runs, COMPLETED once
\* it has returned and FAILED once it has raised.
C37_OwnEntryOwnOutcome ==
  /\ \A c \in Callers :
       callers[c].pc # "idle" =>
         active_searches[callers[c].search_id] = StatusOfCaller(c)
  /\ \A c, d \in Callers :
       (c # d /\ callers[c].pc # "idle" /\ callers[d].pc # "idle") =>
         callers[c].search_id # callers[d].search_id

\* C37 for searches that differ in the target or in the second of their
\* start
C37_OwnOutcomeWhenIdsDiffer ==
  \A c \in Callers :
    (/\ callers[c].pc # "idle"
     /\ \A d \in Callers \ {c} :
          callers[d].pc # "idle" => callers[d].search_id # callers[c].search_id) =>
      active_searches[callers[c].search_id] = StatusOfCaller(c)


\* ---------------------------------------------------------------- C38
\* the recorded requests of an identifier that lie in its window at time t
InWindow(reqs, i, t) ==
  Len(SelectSeq(TimesOf(reqs, i), LAMBDA req_time : req_time > t - window_of(i)))

\* C38: no call of check_rate_limit, with its clean-up of old identifiers,
\* removes a recorded request that lies in the window of its identifier.
C38_CleanupKeepsWindow ==
  [][\A i \in Identifiers :
       InWindow(requests', i, now) >= InWindow(requests, i, now)]_vars

\* C38 for the identifier with the window of 3600 seconds
C38_CleanupKeepsHourWindow ==
  [][InWindow(requests', "lookup_u1", now)
       >= InWindow(requests, "lookup_u1", now)]_vars

\* ---------------------------------------------------------------- C39
\* C39: the timeouts derived by optimize_agent_operations for the strategy
\* of the tier in force are strictly positive and ordered:
\* 0 < http_timeout <= proxy_timeout <= agent_timeout.
C39_TimeoutsPositiveOrdered ==
  optimizations # NoOptimizations =>
    /\ 0 < optimizations.timeout_settings.http_timeout
    /\ optimizations.timeout_settings.http_timeout
         <= optimizations.timeout_settings.proxy_timeout
    /\ optimizations.timeout_settings.proxy_timeout
         <= optimizations.timeout_settings.agent_timeout

\* C39 without "strictly": the timeouts are ordered and none is negative
C39_TimeoutsOrdered ==
  optimizations # NoOptimizations =>
    /\ 0 <= optimizations.timeout_settings.http_timeout
    /\ optimizations.timeout_settings.http_timeout
         <= optimizations.timeout_settings.proxy_timeout
    /\ optimizations.timeout_settings.proxy_timeout
         <= optimizations.timeout_settings.agent_timeout

\* C39 for the tiers above CRITICAL
C39_PositiveAboveCritical ==
  (optimizations # NoOptimizations /\ level # "critical") =>
    0 < optimizations.timeout_settings.http_timeout

====
